---- MODULE Spec2Model ----
(***************************************************************************)
(* A model of the chip8 crate: the instruction decoder                     *)
(* (impl TryFrom<OpCode> for Operation), the execution engine              *)
(* (Interpreter), the default backend (ManagedPlatform) it drives and the   *)
(* scheduler (ManagedInterpreter::simulate_duration); of the trust crate:   *)
(* Game::play_round and the five agents; of the perc crate: percolates; of  *)
(* the mpsc crate: the channel; of the gc crate: Arena; of the orm crate:   *)
(* Transaction; of the fswalk crate: Walker; of the pstack crate: PStack.   *)
(***************************************************************************)
EXTENDS Integers, Sequences, FiniteSets, TLC

VARIABLES
    registers,       \* Interpreter.registers: [u8; REG_SIZE]
    index_register,  \* Interpreter.index_register: usize
    memory,          \* Interpreter.memory: [u8; MEM_SIZE], as the map of its nonzero cells
    pc,              \* Interpreter.pc.0: usize
    sp,              \* Interpreter.sp: usize
    call_stack,      \* Interpreter.call_stack: [usize; STACK_SIZE]
    frame_buffer,    \* ManagedPlatform.frame_buffer, as the set of lit <<x, y>>
    delay_timer,     \* ManagedPlatform.delay_timer
    sound_timer,     \* ManagedPlatform.sound_timer
    keypad,          \* ManagedPlatform.keypad: [KeyEventKind; KEYPAD_SIZE]
    last_key,        \* ManagedPlatform.last_key: Option<Key>, -1 for None
    result,          \* what the last run_next_instruction returned
    lastOp,          \* the Operation the last run_next_instruction decoded
    code,            \* the OpCode handed to the decoder on its own
    decoded,         \* what the decoder returned for code
    operation_duration,   \* ManagedInterpreter.operation_duration, in nanoseconds
    delay_tick_duration,  \* ManagedInterpreter.delay_tick_duration
    sound_tick_duration,  \* ManagedInterpreter.sound_tick_duration
    duration,        \* simulate_duration: its argument, as the loop consumes it
    min_dur,         \* simulate_duration: min_dur of the current iteration
    at,              \* simulate_duration: where the call stands, "idle" outside it
    advanced,        \* what the last simulate_duration returned
    configured,      \* the three durations new_with_durations was given
    calls,           \* the durations the caller has yet to pass to simulate_duration
    whole,           \* the countdowns of a ManagedInterpreter built alike that is
                     \* given the durations of calls in one simulate_duration
    tally,           \* the durations simulate_duration was called with, summed, and
                     \* the instructions and timer decrements it has made
    left,            \* trust: Game.left
    right,           \* trust: Game.right
    played,          \* trust: what the calls of play_round made so far have played
    grid,            \* perc: the BoolGrid handed to percolates
    percolated,      \* perc: what percolates(grid) returned
    inner,           \* mpsc: the Inner<T> shared by the Senders and the Receiver
    channel,         \* mpsc: the handles alive and what send and recv returned
    arena,           \* gc: Arena.0, the allocations in order
    owned,           \* gc: the Gc handles held outside the arena, per allocation
    swept,           \* gc: the calls of Arena::sweep made
    cache,           \* orm: Transaction.cache, the state of each cached node
    storage,         \* orm: the rows of the StorageTransaction and the calls made on it
    reply,           \* orm: what the last call on the Transaction returned
    callbacks,       \* fswalk: Walker.callbacks
    tree,            \* fswalk: the directory tree handed to Walker::walk
    walked,          \* fswalk: the callback invocations walk has made
    nodes,           \* pstack: every Node<T> allocated, by address
    stacks           \* pstack: the PStack values the program holds

cpu == <<registers, index_register, memory, pc, sp, call_stack>>
platform == <<frame_buffer, delay_timer, sound_timer, keypad, last_key>>
observed == <<result, lastOp>>
decoder == <<code, decoded>>
countdowns == <<operation_duration, delay_tick_duration, sound_tick_duration>>
scheduler == <<operation_duration, delay_tick_duration, sound_tick_duration,
               duration, min_dur, at, advanced, configured, calls, whole, tally>>
vars == <<registers, index_register, memory, pc, sp, call_stack,
          frame_buffer, delay_timer, sound_timer, keypad, last_key,
          result, lastOp, code, decoded,
          operation_duration, delay_tick_duration, sound_tick_duration,
          duration, min_dur, at, advanced, configured, calls, whole, tally,
          left, right, played, grid, percolated,
          inner, channel, arena, owned, swept, cache, storage, reply,
          callbacks, tree, walked, nodes, stacks>>
chip8 == <<cpu, platform, observed, decoder, scheduler>>
trust == <<left, right, played>>
perc == <<grid, percolated>>
mpsc == <<inner, channel>>
gc == <<arena, owned, swept>>
orm == <<cache, storage, reply>>
fswalk == <<callbacks, tree, walked>>
pstack == <<nodes, stacks>>
crates == <<trust, perc, mpsc, gc, orm, fswalk, pstack>>

----------------------------------------------------------------------------
(* Program constants *)

SCREEN_WIDTH == 64
SCREEN_HEIGHT == 32
MEM_SIZE == 4096
REG_SIZE == 16
STACK_SIZE == 16
STEP == 2
KEYPAD_SIZE == 16
KEYPAD_LAST == KEYPAD_SIZE - 1
VF == 15
DEFAULT_OPERATION_DURATION == 2000000
DEFAULT_DELAY_TICK_DURATION == 16666667
DEFAULT_SOUND_TICK_DURATION == 16666667

(* Bounds of the model *)

\* the longest chain of nested CALLs a loaded image makes
MaxCallDepth == 17

\* the longest duration, in nanoseconds, the caller advances the scheduler by
MaxDuration == 20000000

----------------------------------------------------------------------------
(* u8 arithmetic *)

U8 == 256

RECURSIVE bitor(_, _)
bitor(a, b) ==
    IF a = 0 THEN b
    ELSE IF b = 0 THEN a
    ELSE 2 * bitor(a \div 2, b \div 2) + (IF a % 2 = 1 \/ b % 2 = 1 THEN 1 ELSE 0)

RECURSIVE bitand(_, _)
bitand(a, b) ==
    IF a = 0 \/ b = 0 THEN 0
    ELSE 2 * bitand(a \div 2, b \div 2) + (IF a % 2 = 1 /\ b % 2 = 1 THEN 1 ELSE 0)

RECURSIVE bitxor(_, _)
bitxor(a, b) ==
    IF a = 0 THEN b
    ELSE IF b = 0 THEN a
    ELSE 2 * bitxor(a \div 2, b \div 2) + (IF a % 2 # b % 2 THEN 1 ELSE 0)

\* u8::overflowing_add: the wrapped sum and whether it overflowed
overflowing_add(a, b) == [res |-> (a + b) % U8, overflow |-> a + b >= U8]

\* u8::overflowing_sub: the wrapped difference and whether it underflowed
overflowing_sub(a, b) == [res |-> (a - b + U8) % U8, overflow |-> a < b]

----------------------------------------------------------------------------
(* data.rs: OpCode field extraction and the validated conversions *)

\* OpCode::extract_nibble(i): the i-th 4-bit field, counted from the low end
extract_nibble(c, i) == (c \div (16 ^ i)) % 16

\* OpCode::extract_word(0): the low 8 bits
extract_word(c) == c % 256

\* OpCode::extract_address(): the low 12 bits
extract_address(c) == c % MEM_SIZE

\* Nibble::try_from(u8) / RegisterIndex::try_from(u8): only values below 16 convert
NibbleTryFrom(v) == [ok |-> v < 16, v |-> v]

\* Address + i16, kept inside the address domain
AddressAdd(addr, v) == (addr + v) % MEM_SIZE

----------------------------------------------------------------------------
(* The decoder: impl TryFrom<OpCode> for Operation *)

Wild == -1

\* the match arms in source order: the slice pattern and the variant it builds
Arms == <<
    [pat |-> <<0, 0, 14, 0>>,      kind |-> "ClearScreen",              form |-> "none"],
    [pat |-> <<6, Wild, Wild, Wild>>, kind |-> "SetRegister",              form |-> "xnn"],
    [pat |-> <<10, Wild, Wild, Wild>>, kind |-> "SetIndexRegister",        form |-> "nnn"],
    [pat |-> <<1, Wild, Wild, Wild>>, kind |-> "Jump",                     form |-> "nnn"],
    [pat |-> <<13, Wild, Wild, Wild>>, kind |-> "Draw",                    form |-> "xyn"],
    [pat |-> <<7, Wild, Wild, Wild>>, kind |-> "AddValue",                 form |-> "xnn"],
    [pat |-> <<3, Wild, Wild, Wild>>, kind |-> "SkipIfEqual",              form |-> "xnn"],
    [pat |-> <<4, Wild, Wild, Wild>>, kind |-> "SkipIfNotEqual",           form |-> "xnn"],
    [pat |-> <<5, Wild, Wild, 0>>,   kind |-> "SkipIfRegistersEqual",     form |-> "xy"],
    [pat |-> <<9, Wild, Wild, 0>>,   kind |-> "SkipIfRegistersNotEqual",  form |-> "xy"],
    [pat |-> <<2, Wild, Wild, Wild>>, kind |-> "Call",                     form |-> "nnn"],
    [pat |-> <<0, 0, 14, 14>>,     kind |-> "Return",                   form |-> "none"],
    [pat |-> <<8, Wild, Wild, 0>>,   kind |-> "SetToRegister",            form |-> "xy"],
    [pat |-> <<8, Wild, Wild, 1>>,   kind |-> "Or",                       form |-> "xy"],
    [pat |-> <<8, Wild, Wild, 2>>,   kind |-> "And",                      form |-> "xy"],
    [pat |-> <<8, Wild, Wild, 3>>,   kind |-> "Xor",                      form |-> "xy"],
    [pat |-> <<8, Wild, Wild, 4>>,   kind |-> "AddRegister",              form |-> "xy"],
    [pat |-> <<8, Wild, Wild, 5>>,   kind |-> "SubRegister",              form |-> "xy"],
    [pat |-> <<8, Wild, Wild, 7>>,   kind |-> "SubRegisterReversed",      form |-> "xy"],
    [pat |-> <<8, Wild, Wild, 6>>,   kind |-> "ShiftRight",               form |-> "xy"],
    [pat |-> <<8, Wild, Wild, 14>>,  kind |-> "ShiftLeft",                form |-> "xy"],
    [pat |-> <<15, Wild, 6, 5>>,    kind |-> "ReadMemory",               form |-> "x"],
    [pat |-> <<15, Wild, 5, 5>>,    kind |-> "WriteMemory",              form |-> "x"],
    [pat |-> <<15, Wild, 3, 3>>,    kind |-> "ToDecimal",                form |-> "x"],
    [pat |-> <<15, Wild, 1, 14>>,   kind |-> "IncrementIndexRegister",   form |-> "x"],
    [pat |-> <<14, Wild, 9, 14>>,   kind |-> "SkipIfKeyDown",            form |-> "x"],
    [pat |-> <<14, Wild, 10, 1>>,   kind |-> "SkipIfKeyUp",              form |-> "x"],
    [pat |-> <<15, Wild, 1, 5>>,    kind |-> "SetDelayTimer",            form |-> "x"],
    [pat |-> <<15, Wild, 0, 7>>,    kind |-> "GetDelayTimer",            form |-> "x"],
    [pat |-> <<15, Wild, 1, 8>>,    kind |-> "SetSoundTimer",            form |-> "x"],
    [pat |-> <<11, Wild, Wild, Wild>>, kind |-> "JumpV0",                  form |-> "nnn"],
    [pat |-> <<15, Wild, 0, 10>>,   kind |-> "WaitForKey",               form |-> "x"],
    [pat |-> <<12, Wild, Wild, Wild>>, kind |-> "SetToRandom",             form |-> "xnn"],
    [pat |-> <<15, Wild, 2, 9>>,    kind |-> "SetIndexRegisterToSprite", form |-> "x"]
>>

\* Nibbles with the .rev() forgotten: the low nibble first
NibblesUnreversed(c) == [i \in 1..4 |-> extract_nibble(c, i - 1)]

\* code.extract_nibble(i) for i in 0..4, reversed: the high nibble first
Nibbles(c) == [i \in 1..4 |-> extract_nibble(c, 4 - i)]

\* Matches with every arm written as [h, ..]: only the first nibble is compared
MatchesHighNibble(pat, nib) == pat[1] = nib[1]

\* whether a slice pattern matches the four nibbles
Matches(pat, nib) == \A i \in 1..4 : pat[i] = Wild \/ pat[i] = nib[i]

\* the arms by the first element of their pattern, which is a literal in every arm
ArmsByHigh == [h \in 0..15 |-> {a \in 1..Len(Arms) : Arms[a].pat[1] = h}]

\* the arms whose pattern matches the word
MatchingArms(c) ==
    LET nib == Nibbles(c)
    IN {a \in ArmsByHigh[nib[1]] : Matches(Arms[a].pat, nib)}

\* the variant an arm builds, with the operands its constructor is given
BuildOperation(arm, c) ==
    LET nib == Nibbles(c)
        nn == extract_word(c)
        nnn == extract_address(c)
    IN CASE arm.form = "none" -> [kind |-> arm.kind]
         [] arm.form = "x"    -> [kind |-> arm.kind, x |-> NibbleTryFrom(nib[2]).v]
         [] arm.form = "xy"   -> [kind |-> arm.kind, x |-> NibbleTryFrom(nib[2]).v,
                                  y |-> NibbleTryFrom(nib[3]).v]
         [] arm.form = "xyn"  -> [kind |-> arm.kind, x |-> NibbleTryFrom(nib[2]).v,
                                  y |-> NibbleTryFrom(nib[3]).v,
                                  n |-> NibbleTryFrom(nib[4]).v]
         [] arm.form = "xnn"  -> [kind |-> arm.kind, x |-> NibbleTryFrom(nib[2]).v,
                                  nn |-> nn]
         [] arm.form = "nnn"  -> [kind |-> arm.kind, nnn |-> nnn]

\* the variants whose pattern starts with the nibble h
KindsByHigh == [h \in 0..15 |-> {Arms[a].kind : a \in ArmsByHigh[h]}]

\* the first of a set of arms, as a match expression selects it
FirstArm(arms) == CHOOSE a \in arms : \A b \in arms : a <= b

\* Operation::try_from(code)
TryFromOpCode(c) ==
    LET arms == MatchingArms(c)
    IN IF arms = {}
       THEN [ok |-> FALSE, err |-> [kind |-> "UnknownOpCode", code |-> c]]
       ELSE [ok |-> TRUE, op |-> BuildOperation(Arms[FirstArm(arms)], c)]

----------------------------------------------------------------------------
(* Results of run_next_instruction *)

Ok == [kind |-> "Ok"]
StackOverflow == [kind |-> "StackOverflow"]
StackUnderflow == [kind |-> "StackUnderflow"]
Crashed == [kind |-> "Crashed"]
InvalidKey(k) == [kind |-> "InvalidKey", key |-> k]
\* the call did not return: an index out of bounds or an unwrap on Err unwound it
Panicked == [kind |-> "Panicked"]
NotRun == [kind |-> "NotRun"]

\* a panic unwinds out of the handler before it writes anything
Panic == result' = Panicked /\ UNCHANGED cpu /\ UNCHANGED platform

----------------------------------------------------------------------------
(* Interpreter: memory and fetch *)

\* memory[a], for a < MEM_SIZE: a cell the map does not hold is 0
Mem(a) == IF a \in DOMAIN memory THEN memory[a] ELSE 0

\* memory after the stores upd (address |-> byte), kept as the nonzero cells
Stored(upd) ==
    LET val(a) == IF a \in DOMAIN upd THEN upd[a] ELSE memory[a]
    IN [a \in {b \in DOMAIN memory \cup DOMAIN upd : val(b) # 0} |-> val(a)]

\* whether memory[pc] and memory[pc + 1] are inside the array
FetchInBounds == pc + 1 < MEM_SIZE

\* Interpreter::extract_opcode
extract_opcode == Mem(pc) * 256 + Mem(pc + 1)

\* ProgramCounter::next
pc_next == pc' = pc + STEP

\* ProgramCounter::skip stepping over one instruction only
pc_skip_one_step == pc' = pc + STEP

\* ProgramCounter::skip
pc_skip == pc' = pc + STEP * 2

----------------------------------------------------------------------------
(* Interpreter: the instruction handlers *)

\* 00E0
cls ==
    /\ frame_buffer' = {}
    /\ pc_next
    /\ result' = Ok
    /\ UNCHANGED <<registers, index_register, memory, sp, call_stack>>
    /\ UNCHANGED <<delay_timer, sound_timer, keypad, last_key>>

\* 6xnn
set_reg(x, nn) ==
    /\ registers' = [registers EXCEPT ![x] = nn]
    /\ pc_next
    /\ result' = Ok
    /\ UNCHANGED <<index_register, memory, sp, call_stack>>
    /\ UNCHANGED platform

\* Annn
set_i(addr) ==
    /\ index_register' = addr
    /\ pc_next
    /\ result' = Ok
    /\ UNCHANGED <<registers, memory, sp, call_stack>>
    /\ UNCHANGED platform

\* 1nnn
jmp(nnn) ==
    /\ pc' = nnn
    /\ result' = Ok
    /\ UNCHANGED <<registers, index_register, memory, sp, call_stack>>
    /\ UNCHANGED platform

\* Sprite::iter_pixels: the offsets <<dx, dy>> of the set bits of the n sprite
\* rows at memory[i .. i + n], the high bit of a row being its leftmost pixel
SpritePixels(i, n) ==
    {d \in (0..7) \X (0..(n - 1)) : (Mem(i + d[2]) \div (2 ^ (7 - d[1]))) % 2 = 1}

\* FrameBuffer::is_in_bounds
is_in_bounds(x, y) == x < SCREEN_WIDTH /\ y < SCREEN_HEIGHT

\* DrawTargets with the origin taken as it is, not modulo the screen size
DrawTargetsNoWrap(px, py, i, n) ==
    {t \in {<<px + d[1], py + d[2]>> : d \in SpritePixels(i, n)} :
        is_in_bounds(t[1], t[2])}

\* ManagedPlatform::draw_sprite: the pixels it toggles
DrawTargets(px, py, i, n) ==
    LET ox == px % SCREEN_WIDTH
        oy == py % SCREEN_HEIGHT
    IN {t \in {<<ox + d[1], oy + d[2]>> : d \in SpritePixels(i, n)} :
            is_in_bounds(t[1], t[2])}

\* draw on a platform that sets the sprite's pixels instead of toggling them
draw_sets_pixels(x, y, n) ==
    IF index_register + n > MEM_SIZE
    THEN Panic
    ELSE LET targets == DrawTargets(registers[x], registers[y], index_register, n)
             collision == targets \cap frame_buffer # {}
         IN /\ frame_buffer' = frame_buffer \cup targets
            /\ registers' = [registers EXCEPT ![VF] = IF collision THEN 1 ELSE 0]
            /\ pc_next
            /\ result' = Ok
            /\ UNCHANGED <<index_register, memory, sp, call_stack>>
            /\ UNCHANGED <<delay_timer, sound_timer, keypad, last_key>>

\* Dxyn
draw(x, y, n) ==
    IF index_register + n > MEM_SIZE
    THEN Panic
    ELSE LET targets == DrawTargets(registers[x], registers[y], index_register, n)
             collision == targets \cap frame_buffer # {}
         IN /\ frame_buffer' = (frame_buffer \ targets) \cup (targets \ frame_buffer)
            /\ registers' = [registers EXCEPT ![VF] = IF collision THEN 1 ELSE 0]
            /\ pc_next
            /\ result' = Ok
            /\ UNCHANGED <<index_register, memory, sp, call_stack>>
            /\ UNCHANGED <<delay_timer, sound_timer, keypad, last_key>>

\* 7xnn
add_value(x, nn) ==
    /\ registers' = [registers EXCEPT ![x] = (registers[x] + nn) % U8]
    /\ pc_next
    /\ result' = Ok
    /\ UNCHANGED <<index_register, memory, sp, call_stack>>
    /\ UNCHANGED platform

\* the skip instructions: pc.skip() when the condition holds, else pc.next()
skip_when(cond) ==
    /\ IF cond THEN pc_skip ELSE pc_next
    /\ result' = Ok
    /\ UNCHANGED <<registers, index_register, memory, sp, call_stack>>
    /\ UNCHANGED platform

\* 3xnn
skip_if_eq(x, nn) == skip_when(registers[x] = nn)

\* 4xnn
skip_if_neq(x, nn) == skip_when(registers[x] # nn)

\* 5xy0
skip_if_reg_eq(x, y) == skip_when(registers[x] = registers[y])

\* 9xy0
skip_if_reg_neq(x, y) == skip_when(registers[x] # registers[y])

\* call with the address of the CALL itself pushed, not the one after it
call_pushes_pc(nnn) ==
    IF sp >= STACK_SIZE
    THEN Panic
    ELSE /\ call_stack' = [call_stack EXCEPT ![sp] = pc]
         /\ sp' = sp + 1
         /\ pc' = nnn
         /\ result' = Ok
         /\ UNCHANGED <<registers, index_register, memory>>
         /\ UNCHANGED platform

\* call storing the return address in the bottom slot of the call stack
call_clobbers_bottom(nnn) ==
    IF sp >= STACK_SIZE
    THEN Panic
    ELSE /\ call_stack' = [call_stack EXCEPT ![0] = pc + 2]
         /\ sp' = sp + 1
         /\ pc' = nnn
         /\ result' = Ok
         /\ UNCHANGED <<registers, index_register, memory>>
         /\ UNCHANGED platform

\* 2nnn: sp.overflowing_add(1) overflows only at usize::MAX, so the Err arm is
\* never taken for sp <= STACK_SIZE; call_stack[sp] is outside the array at
\* sp = STACK_SIZE
call(nnn) ==
    IF sp >= STACK_SIZE
    THEN Panic
    ELSE /\ call_stack' = [call_stack EXCEPT ![sp] = pc + 2]
         /\ sp' = sp + 1
         /\ pc' = nnn
         /\ result' = Ok
         /\ UNCHANGED <<registers, index_register, memory>>
         /\ UNCHANGED platform

\* ret with sp.wrapping_sub(1) and no test: on an empty stack it takes the last
\* slot of the array as the return address
ret_no_underflow ==
    LET res == (sp + STACK_SIZE - 1) % STACK_SIZE
    IN /\ sp' = res
       /\ pc' = call_stack[res]
       /\ result' = Ok
       /\ UNCHANGED <<registers, index_register, memory, call_stack>>
       /\ UNCHANGED platform

\* 00EE
ret ==
    IF sp = 0
    THEN /\ result' = StackUnderflow
         /\ UNCHANGED cpu
         /\ UNCHANGED platform
    ELSE /\ sp' = sp - 1
         /\ pc' = call_stack[sp - 1]
         /\ result' = Ok
         /\ UNCHANGED <<registers, index_register, memory, call_stack>>
         /\ UNCHANGED platform

\* a handler that writes registers only and steps the program counter
regs_next(regs) ==
    /\ registers' = regs
    /\ pc_next
    /\ result' = Ok
    /\ UNCHANGED <<index_register, memory, sp, call_stack>>
    /\ UNCHANGED platform

\* 8xy0
set_to_reg(x, y) == regs_next([registers EXCEPT ![x] = registers[y]])

\* 8xy1
or(x, y) ==
    regs_next([[registers EXCEPT ![x] = bitor(registers[x], registers[y])]
                   EXCEPT ![VF] = 0])

\* 8xy2
and(x, y) ==
    regs_next([[registers EXCEPT ![x] = bitand(registers[x], registers[y])]
                   EXCEPT ![VF] = 0])

\* xor without the reset of the flag register
xor_keeps_flag(x, y) ==
    regs_next([registers EXCEPT ![x] = bitxor(registers[x], registers[y])])

\* 8xy3
xor(x, y) ==
    regs_next([[registers EXCEPT ![x] = bitxor(registers[x], registers[y])]
                   EXCEPT ![VF] = 0])

\* add_to_reg with the two stores exchanged: the flag first, the sum last
add_to_reg_flag_first(x, y) ==
    LET r == overflowing_add(registers[x], registers[y])
    IN regs_next([[registers EXCEPT ![VF] = IF r.overflow THEN 1 ELSE 0]
                      EXCEPT ![x] = r.res])

\* 8xy4
add_to_reg(x, y) ==
    LET r == overflowing_add(registers[x], registers[y])
    IN regs_next([[registers EXCEPT ![x] = r.res]
                      EXCEPT ![VF] = IF r.overflow THEN 1 ELSE 0])

\* sub with the flag set on borrow instead of on no borrow
sub_flag_on_borrow(x, y) ==
    LET r == overflowing_sub(registers[x], registers[y])
    IN regs_next([[registers EXCEPT ![x] = r.res]
                      EXCEPT ![VF] = IF r.overflow THEN 1 ELSE 0])

\* 8xy5
sub(x, y) ==
    LET r == overflowing_sub(registers[x], registers[y])
    IN regs_next([[registers EXCEPT ![x] = r.res]
                      EXCEPT ![VF] = IF r.overflow THEN 0 ELSE 1])

\* 8xy7
sub_rev(x, y) ==
    LET r == overflowing_sub(registers[y], registers[x])
    IN regs_next([[registers EXCEPT ![x] = r.res]
                      EXCEPT ![VF] = IF r.overflow THEN 0 ELSE 1])

\* shr with the flag taken from Vy after Vx has been written
shr_reads_after_write(x, y) ==
    LET regs == [registers EXCEPT ![x] = registers[y] \div 2]
    IN regs_next([regs EXCEPT ![VF] = regs[y] % 2])

\* 8xy6
shr(x, y) ==
    LET vy == registers[y]
    IN regs_next([[registers EXCEPT ![x] = registers[y] \div 2]
                      EXCEPT ![VF] = vy % 2])

\* 8xyE
shl(x, y) ==
    LET vy == registers[y]
    IN regs_next([[registers EXCEPT ![x] = (registers[y] * 2) % U8]
                      EXCEPT ![VF] = vy \div 128])

\* the first index of I .. I + count - 1 that is outside memory, or count
InBoundsCount(count) ==
    IF index_register + count <= MEM_SIZE THEN count
    ELSE IF index_register >= MEM_SIZE THEN 0
    ELSE MEM_SIZE - index_register

\* Fx65: the loop stores register by register, so the stores made before an
\* out-of-bounds memory index unwinds the call stay
read(x) ==
    LET done == InBoundsCount(x + 1)
        regs == [i \in 0..(REG_SIZE - 1) |->
                    IF i < done THEN Mem(index_register + i) ELSE registers[i]]
    IN IF done < x + 1
       THEN /\ registers' = regs
            /\ result' = Panicked
            /\ UNCHANGED <<index_register, memory, pc, sp, call_stack>>
            /\ UNCHANGED platform
       ELSE /\ registers' = regs
            /\ index_register' = index_register + x + 1
            /\ pc_next
            /\ result' = Ok
            /\ UNCHANGED <<memory, sp, call_stack>>
            /\ UNCHANGED platform

\* Fx55
write(x) ==
    LET done == InBoundsCount(x + 1)
        mem == Stored([a \in index_register..(index_register + done - 1) |->
                          registers[a - index_register]])
    IN IF done < x + 1
       THEN /\ memory' = mem
            /\ result' = Panicked
            /\ UNCHANGED <<registers, index_register, pc, sp, call_stack>>
            /\ UNCHANGED platform
       ELSE /\ memory' = mem
            /\ index_register' = index_register + x + 1
            /\ pc_next
            /\ result' = Ok
            /\ UNCHANGED <<registers, sp, call_stack>>
            /\ UNCHANGED platform

\* Fx33
dec(x) ==
    LET done == InBoundsCount(3)
        digits == <<registers[x] \div 100, (registers[x] % 100) \div 10, registers[x] % 10>>
        mem == Stored([a \in index_register..(index_register + done - 1) |->
                          digits[a - index_register + 1]])
    IN IF done < 3
       THEN /\ memory' = mem
            /\ result' = Panicked
            /\ UNCHANGED <<registers, index_register, pc, sp, call_stack>>
            /\ UNCHANGED platform
       ELSE /\ memory' = mem
            /\ pc_next
            /\ result' = Ok
            /\ UNCHANGED <<registers, index_register, sp, call_stack>>
            /\ UNCHANGED platform

\* Fx1E
incr_i(x) ==
    /\ index_register' = index_register + registers[x]
    /\ pc_next
    /\ result' = Ok
    /\ UNCHANGED <<registers, memory, sp, call_stack>>
    /\ UNCHANGED platform

\* ManagedPlatform::is_key_down
is_key_down(key) == keypad[key] = "Pressed"

\* the body shared by key_down and key_up: Nibble::try_from(..).unwrap() unwinds
\* on a register value that is no nibble; the InvalidKey arm follows it
key_test(x, skip_if_down) ==
    LET key == NibbleTryFrom(registers[x])
    IN IF ~key.ok
       THEN Panic
       ELSE IF key.v <= KEYPAD_LAST
       THEN /\ IF is_key_down(key.v) = skip_if_down THEN pc_skip ELSE pc_next
            /\ result' = Ok
            /\ UNCHANGED <<registers, index_register, memory, sp, call_stack>>
            /\ UNCHANGED platform
       ELSE /\ result' = InvalidKey(key.v)
            /\ UNCHANGED cpu
            /\ UNCHANGED platform

\* Ex9E
key_down(x) == key_test(x, TRUE)

\* ExA1
key_up(x) == key_test(x, FALSE)

\* Fx15
set_delay_timer(x) ==
    /\ delay_timer' = registers[x]
    /\ pc_next
    /\ result' = Ok
    /\ UNCHANGED <<registers, index_register, memory, sp, call_stack>>
    /\ UNCHANGED <<frame_buffer, sound_timer, keypad, last_key>>

\* Fx07
get_delay_timer(x) ==
    /\ registers' = [registers EXCEPT ![x] = delay_timer]
    /\ pc_next
    /\ result' = Ok
    /\ UNCHANGED <<index_register, memory, sp, call_stack>>
    /\ UNCHANGED platform

\* Fx18: the value handed to the platform is x.as_u8(), the operand itself
set_sound_timer(x) ==
    /\ sound_timer' = x
    /\ pc_next
    /\ result' = Ok
    /\ UNCHANGED <<registers, index_register, memory, sp, call_stack>>
    /\ UNCHANGED <<frame_buffer, delay_timer, keypad, last_key>>

\* the keys the scan of wait_for_key finds down
KeysDown == {i \in 0..15 : is_key_down(i)}

\* the last key of the scan 0..16 that is down
LastKeyDown == CHOOSE i \in KeysDown : \A j \in KeysDown : j <= i

\* wait_for_key without the early return: the program counter steps on anyway
wait_for_key_no_return(x) ==
    /\ memory' = IF KeysDown = {} THEN memory ELSE Stored([a \in {x} |-> LastKeyDown])
    /\ pc_next
    /\ result' = Ok
    /\ UNCHANGED <<registers, index_register, sp, call_stack>>
    /\ UNCHANGED platform

\* Fx0A: every key found down is stored into memory[x], the later over the earlier
wait_for_key(x) ==
    IF KeysDown = {}
    THEN /\ result' = Ok
         /\ UNCHANGED cpu
         /\ UNCHANGED platform
    ELSE /\ memory' = Stored([a \in {x} |-> LastKeyDown])
         /\ pc_next
         /\ result' = Ok
         /\ UNCHANGED <<registers, index_register, sp, call_stack>>
         /\ UNCHANGED platform

\* Bnnn
jmp_v0(nnn) ==
    /\ pc' = AddressAdd(nnn, registers[0])
    /\ result' = Ok
    /\ UNCHANGED <<registers, index_register, memory, sp, call_stack>>
    /\ UNCHANGED platform

\* Cxnn, for the byte w the random source returns
set_rng(x, nn, w) ==
    /\ registers' = [registers EXCEPT ![x] = bitand(w, nn)]
    /\ pc_next
    /\ result' = Ok
    /\ UNCHANGED <<index_register, memory, sp, call_stack>>
    /\ UNCHANGED platform

\* Fx29
set_sprite(x) ==
    /\ index_register' = registers[x] * 5
    /\ pc_next
    /\ result' = Ok
    /\ UNCHANGED <<registers, memory, sp, call_stack>>
    /\ UNCHANGED platform

----------------------------------------------------------------------------
(* Images: the programs the interpreter is constructed from *)

\* the instruction word with the four nibbles a, b, c, d
W(a, b, c, d) == a * 4096 + b * 256 + c * 16 + d

\* the instruction word with high nibble a, register x and immediate nn
Wxnn(a, x, nn) == a * 4096 + x * 256 + nn

\* the instruction word with high nibble a and address nnn
Wnnn(a, nnn) == a * 4096 + nnn

\* the byte payload of a sequence of instruction words, big-endian
Payload(words) ==
    [i \in 1..(2 * Len(words)) |->
        IF i % 2 = 1 THEN words[(i + 1) \div 2] \div 256 ELSE words[i \div 2] % 256]

\* Image::entry_point of the images used
ENTRY == 512

\* Image::load_into_memory: the payload is copied to the entry point
LoadIntoMemory(words) ==
    LET bytes == Payload(words)
    IN [a \in {ENTRY + i - 1 : i \in {j \in 1..Len(bytes) : bytes[j] # 0}} |->
           bytes[a - ENTRY + 1]]

\* register pairs <<x, y>>: distinct, equal, and each of them the flag register
RegPairs == {<<0, 1>>, <<1, 1>>, <<15, 1>>, <<1, 15>>, <<15, 15>>}
ByteInputs == {0, 1, 128, 255}
KeyInputs == {3, 15}
RandInputs == {0, 90, 255}

\* n nested CALLs, each followed by the RET its callee returns to, then the
\* RET of the innermost callee; for n = 0 a RET alone
CallWords(n) ==
    [i \in 1..(2 * n + 1) |->
        IF i = 2 * n + 1 THEN W(0, 0, 14, 14)
        ELSE IF i % 2 = 1 THEN Wnnn(2, ENTRY + 2 * (i + 1))
        ELSE W(0, 0, 14, 14)]

CallImages == {CallWords(n) : n \in 0..MaxCallDepth}

\* LD Vx, a; LD Vy, b; then the 8xyk instruction
ArithImages ==
    {<<Wxnn(6, p[1], a), Wxnn(6, p[2], b), W(8, p[1], p[2], k)>> :
        p \in RegPairs, a \in ByteInputs, b \in ByteInputs,
        k \in {0, 1, 2, 3, 4, 5, 6, 7, 14}}

\* LD Vx, a; LD Vy, b; then a skip instruction
SkipImages ==
    {<<Wxnn(6, 0, a), Wxnn(6, 1, b), w>> :
        a \in {0, 1}, b \in {0, 1},
        w \in {Wxnn(3, 0, 1), Wxnn(4, 0, 1), W(5, 0, 1, 0), W(9, 0, 1, 0)}}

\* LD Vx, a; then a key test or the wait for a key
KeyImages ==
    {<<Wxnn(6, x, a), w>> :
        x \in {1}, a \in {3, 15, 16, 255},
        w \in {W(14, 1, 9, 14), W(14, 1, 10, 1)}}
    \cup {<<Wxnn(6, x, 9), W(15, x, 0, 10), W(15, x, 0, 10)>> : x \in {0, 2}}

\* LD Vx, a; LD DT, Vx; LD Vy, DT; LD ST, Vx
TimerImages ==
    {<<Wxnn(6, x, a), W(15, x, 1, 5), W(15, y, 0, 7), W(15, x, 1, 8)>> :
        x \in {2, 7}, y \in {3}, a \in {0, 7, 200}}

\* a walk through the memory, index, draw and random instructions, ending in
\* a jump to the last byte of memory
TourImages ==
    {<<Wnnn(10, i), Wxnn(6, 0, a), Wxnn(6, 1, 37), Wxnn(7, 1, a),
       W(15, 1, 3, 3), W(15, 1, 5, 5), W(15, 1, 1, 14), W(15, 2, 6, 5),
       W(15, 0, 2, 9), W(13, 1, 0, 3), W(13, 1, 0, 3), W(0, 0, 14, 0),
       Wxnn(12, 3, 15), Wxnn(6, 0, 4), Wnnn(11, ENTRY + 28), Wnnn(1, 4095),
       Wnnn(1, 4095)>> :
        i \in {768, 4094}, a \in {2, 255}}

\* sprites as <<n, the word holding the sprite rows>>: one pixel at the left
\* edge of the row, one at the right edge, no pixel, two full rows, no row
Sprites == {<<1, 32768>>, <<1, 256>>, <<1, 0>>, <<2, 65409>>, <<0, 65280>>}

\* LD V0, px; LD V1, py; LD I, sprite; the same DRW twice; a jump to itself; the
\* sprite rows
DrawWords(px, py, sprite) ==
    <<Wxnn(6, 0, px), Wxnn(6, 1, py), Wnnn(10, ENTRY + 12),
      W(13, 0, 1, sprite[1]), W(13, 0, 1, sprite[1]), Wnnn(1, ENTRY + 10),
      sprite[2]>>

DrawImages ==
    {DrawWords(px, py, sprite) :
        px \in {0, 57, 63, 64, 255}, py \in {0, 31, 32}, sprite \in Sprites}

\* words that match no instruction shape
BadImages == {<<w>> : w \in {0, 225, 20769, 32776, 57503, 61695, 65535}}

\* CLS alone; LD VA, 2 followed by ADD VA, 5; JP, CALL and JP V0 to an odd address
ScenarioImages ==
    {<<W(0, 0, 14, 0)>>, <<Wxnn(6, 10, 2), Wxnn(7, 10, 5)>>,
     <<Wnnn(1, ENTRY + 3)>>, <<Wnnn(2, ENTRY + 3)>>,
     <<Wxnn(6, 0, 1), Wnnn(11, ENTRY + 4)>>}

\* LD V0, a; LD V1, 7; LD V2, 9; LD I, i; then ADD I, Vx or a block transfer at
\* the end of memory
IndexImages ==
    {<<Wxnn(6, 0, a), Wxnn(6, 1, 7), Wxnn(6, 2, 9), Wnnn(10, i), w>> :
        a \in {1, 255}, i \in {4093, 4094, 4095},
        w \in {W(15, 0, 1, 14), W(15, 0, 5, 5), W(15, 0, 6, 5),
               W(15, 2, 5, 5), W(15, 2, 6, 5)}}

Images == CallImages \cup ArithImages \cup SkipImages \cup KeyImages
             \cup TimerImages \cup TourImages \cup BadImages \cup DrawImages
             \cup ScenarioImages \cup IndexImages

----------------------------------------------------------------------------
(* The interpreter as a state machine *)

NoOperation == [kind |-> "None"]
NotDecoded == [kind |-> "NotDecoded"]

\* Interpreter::new(image, ManagedPlatform::new(rand))
New(words) ==
    /\ registers = [i \in 0..(REG_SIZE - 1) |-> 0]
    /\ index_register = 0
    /\ memory = LoadIntoMemory(words)
    /\ pc = ENTRY
    /\ sp = 0
    /\ call_stack = [i \in 0..(STACK_SIZE - 1) |-> 0]
    /\ frame_buffer = {}
    /\ delay_timer = 0
    /\ sound_timer = 0
    /\ keypad = [k \in 0..(KEYPAD_SIZE - 1) |-> "Released"]
    /\ last_key = -1

\* the sum of a sequence of durations
RECURSIVE SumOf(_)
SumOf(ds) == IF ds = <<>> THEN 0 ELSE Head(ds) + SumOf(Tail(ds))

\* ManagedInterpreter::new_with_durations, and the calls of simulate_duration
\* its owner is going to make
new_with_durations(words, operation, delay_tick, sound_tick, plan) ==
    /\ New(words)
    /\ operation_duration = operation
    /\ delay_tick_duration = delay_tick
    /\ sound_tick_duration = sound_tick
    /\ configured = [operation |-> operation, delay_tick |-> delay_tick,
                     sound_tick |-> sound_tick]
    /\ duration = 0
    /\ min_dur = 0
    /\ at = "idle"
    /\ advanced = NotRun
    /\ calls = plan
    /\ whole = [operation_duration |-> operation, delay_tick_duration |-> delay_tick,
                sound_tick_duration |-> sound_tick, duration |-> SumOf(plan)]
    /\ tally = [requested |-> 0, instructions |-> 0, delay_attempts |-> 0,
                sound_attempts |-> 0]

\* ManagedInterpreter::new
new(words) ==
    new_with_durations(words, DEFAULT_OPERATION_DURATION, DEFAULT_DELAY_TICK_DURATION,
                       DEFAULT_SOUND_TICK_DURATION, <<>>)

\* no game of the trust crate is set up
TrustIdle ==
    /\ left = [kind |-> "None"]
    /\ right = [kind |-> "None"]
    /\ played = <<>>

\* percolates is not called
PercIdle ==
    /\ grid = [width |-> 0, height |-> 0, data |-> <<>>]
    /\ percolated = [called |-> FALSE]

\* no channel of the mpsc crate is made
MpscIdle ==
    /\ inner = [buffer |-> <<>>, state |-> "Open"]
    /\ channel = [senders |-> 0]

\* the arena of the gc crate is empty
GcIdle ==
    /\ arena = <<>>
    /\ owned = <<>>
    /\ swept = 0

\* no transaction of the orm crate is begun
OrmIdle ==
    /\ cache = <<>>
    /\ storage = [rows |-> {}, issued |-> <<>>]
    /\ reply = [kind |-> "None"]

\* Walker::walk is not called
FswalkIdle ==
    /\ callbacks = <<>>
    /\ tree = <<>>
    /\ walked = [done |-> FALSE]

\* no PStack is made
PstackIdle ==
    /\ nodes = <<>>
    /\ stacks = <<>>

\* the crates besides chip8 at rest
CratesIdle ==
    /\ TrustIdle
    /\ PercIdle
    /\ MpscIdle
    /\ GcIdle
    /\ OrmIdle
    /\ FswalkIdle
    /\ PstackIdle

Init ==
    /\ \E words \in Images : new(words)
    /\ result = NotRun
    /\ lastOp = NoOperation
    /\ code = 0
    /\ decoded = NotDecoded
    /\ CratesIdle

\* the interpreter exists: no earlier call unwound it
Alive == result.kind # "Panicked"

\* ManagedInterpreter::simulate_one_instruction: called by the owner between
\* two calls of simulate_duration, or by simulate_duration when the operation
\* countdown is the one that ran out
simulate_one_instruction ==
    /\ \/ at = "idle"
       \/ at = "op" /\ min_dur = operation_duration
    /\ at' = IF at = "op" THEN "ran" ELSE at
    /\ tally' = IF at = "op" THEN [tally EXCEPT !.instructions = @ + 1] ELSE tally
    /\ UNCHANGED <<operation_duration, delay_tick_duration, sound_tick_duration,
                   duration, min_dur, advanced, configured, calls, whole>>
    /\ UNCHANGED crates

\* ManagedInterpreter::set_key_down
set_key_down(key, is_down) ==
    /\ keypad' = [keypad EXCEPT ![key] = IF is_down THEN "Pressed" ELSE "Released"]
    /\ last_key' = IF is_down THEN key ELSE last_key
    /\ UNCHANGED <<frame_buffer, delay_timer, sound_timer>>
    /\ UNCHANGED cpu

SetKeyDown ==
    /\ Alive
    /\ at = "idle"
    /\ UNCHANGED scheduler
    /\ \E key \in KeyInputs, is_down \in BOOLEAN : set_key_down(key, is_down)
    /\ UNCHANGED observed
    /\ UNCHANGED decoder
    /\ UNCHANGED crates

\* what the decoder makes of the word run_next_instruction fetches
Fetched == TryFromOpCode(extract_opcode)

\* run_next_instruction, having decoded d, reaches the handler of the variant kind
Runs(d, kind) ==
    /\ Alive
    /\ FetchInBounds
    /\ kind \in KindsByHigh[Mem(pc) \div 16]
    /\ d.ok
    /\ d.op.kind = kind
    /\ lastOp' = d.op
    /\ UNCHANGED decoder
    /\ simulate_one_instruction

\* extract_opcode indexes memory outside the array
FetchFault ==
    /\ Alive
    /\ ~FetchInBounds
    /\ Panic
    /\ UNCHANGED lastOp
    /\ UNCHANGED decoder
    /\ simulate_one_instruction

\* the Err(_) arm stepping over the word that does not decode
DecodeFaultSkips(d) ==
    /\ Alive
    /\ FetchInBounds
    /\ ~d.ok
    /\ result' = Crashed
    /\ pc_next
    /\ UNCHANGED <<registers, index_register, memory, sp, call_stack>>
    /\ UNCHANGED platform
    /\ UNCHANGED lastOp
    /\ UNCHANGED decoder
    /\ simulate_one_instruction

\* the Err(_) arm of run_next_instruction
DecodeFault(d) ==
    /\ Alive
    /\ FetchInBounds
    /\ ~d.ok
    /\ result' = Crashed
    /\ UNCHANGED cpu
    /\ UNCHANGED platform
    /\ UNCHANGED lastOp
    /\ UNCHANGED decoder
    /\ simulate_one_instruction

\* Interpreter::run_next_instruction: the decoded operation is dispatched to its
\* handler; an error of call, ret, key_down or key_up is returned as it is
RunNextInstruction ==
    LET d == Fetched
    IN \/ FetchFault
       \/ DecodeFault(d)
       \/ Runs(d, "ClearScreen") /\ cls
       \/ Runs(d, "Jump") /\ jmp(d.op.nnn)
       \/ Runs(d, "SetRegister") /\ set_reg(d.op.x, d.op.nn)
       \/ Runs(d, "SetIndexRegister") /\ set_i(d.op.nnn)
       \/ Runs(d, "Draw") /\ draw(d.op.x, d.op.y, d.op.n)
       \/ Runs(d, "AddValue") /\ add_value(d.op.x, d.op.nn)
       \/ Runs(d, "SkipIfEqual") /\ skip_if_eq(d.op.x, d.op.nn)
       \/ Runs(d, "SkipIfNotEqual") /\ skip_if_neq(d.op.x, d.op.nn)
       \/ Runs(d, "SkipIfRegistersEqual") /\ skip_if_reg_eq(d.op.x, d.op.y)
       \/ Runs(d, "SkipIfRegistersNotEqual") /\ skip_if_reg_neq(d.op.x, d.op.y)
       \/ Runs(d, "Call") /\ call(d.op.nnn)
       \/ Runs(d, "Return") /\ ret
       \/ Runs(d, "SetToRegister") /\ set_to_reg(d.op.x, d.op.y)
       \/ Runs(d, "Or") /\ or(d.op.x, d.op.y)
       \/ Runs(d, "And") /\ and(d.op.x, d.op.y)
       \/ Runs(d, "Xor") /\ xor(d.op.x, d.op.y)
       \/ Runs(d, "AddRegister") /\ add_to_reg(d.op.x, d.op.y)
       \/ Runs(d, "SubRegister") /\ sub(d.op.x, d.op.y)
       \/ Runs(d, "SubRegisterReversed") /\ sub_rev(d.op.x, d.op.y)
       \/ Runs(d, "ShiftRight") /\ shr(d.op.x, d.op.y)
       \/ Runs(d, "ShiftLeft") /\ shl(d.op.x, d.op.y)
       \/ Runs(d, "ReadMemory") /\ read(d.op.x)
       \/ Runs(d, "WriteMemory") /\ write(d.op.x)
       \/ Runs(d, "ToDecimal") /\ dec(d.op.x)
       \/ Runs(d, "IncrementIndexRegister") /\ incr_i(d.op.x)
       \/ Runs(d, "SkipIfKeyDown") /\ key_down(d.op.x)
       \/ Runs(d, "SkipIfKeyUp") /\ key_up(d.op.x)
       \/ Runs(d, "SetDelayTimer") /\ set_delay_timer(d.op.x)
       \/ Runs(d, "GetDelayTimer") /\ get_delay_timer(d.op.x)
       \/ Runs(d, "SetSoundTimer") /\ set_sound_timer(d.op.x)
       \/ Runs(d, "JumpV0") /\ jmp_v0(d.op.nnn)
       \/ Runs(d, "WaitForKey") /\ wait_for_key(d.op.x)
       \/ Runs(d, "SetToRandom") /\ \E w \in RandInputs : set_rng(d.op.x, d.op.nn, w)
       \/ Runs(d, "SetIndexRegisterToSprite") /\ set_sprite(d.op.x)

Next == RunNextInstruction \/ SetKeyDown

Spec == Init /\ [][Next]_vars

----------------------------------------------------------------------------
(* The decoder on its own: every 16-bit word is handed to it once *)

InitDecode ==
    /\ new(<<>>)
    /\ result = NotRun
    /\ lastOp = NoOperation
    /\ code \in 0..65535
    /\ decoded = NotDecoded
    /\ CratesIdle

Decode ==
    /\ decoded = NotDecoded
    /\ decoded' = TryFromOpCode(code)
    /\ UNCHANGED <<code, result, lastOp>>
    /\ UNCHANGED cpu
    /\ UNCHANGED platform
    /\ UNCHANGED scheduler
    /\ UNCHANGED crates

NextDecode == Decode

SpecDecode == InitDecode /\ [][NextDecode]_vars

----------------------------------------------------------------------------
(* The scheduler: ManagedInterpreter::simulate_duration *)

\* Duration::min
Min(a, b) == IF a <= b THEN a ELSE b

\* min_dur as the loop computes it from three countdowns
MinOfCountdowns(c) ==
    Min(c.delay_tick_duration, Min(c.sound_tick_duration, c.operation_duration))

\* the countdowns and the remaining duration of this ManagedInterpreter
Now ==
    [operation_duration |-> operation_duration,
     delay_tick_duration |-> delay_tick_duration,
     sound_tick_duration |-> sound_tick_duration,
     duration |-> duration]

\* the branch `if min_dur > duration`: what it leaves in the three fields
Broken(c) ==
    [c EXCEPT !.operation_duration = @ - c.duration,
              !.delay_tick_duration = @ - c.duration,
              !.sound_tick_duration = @ - c.duration]

\* one iteration of the loop that does not break and whose instruction, if it
\* runs one, succeeds: what it leaves in the three fields and in duration
Iterated(c) ==
    LET m == MinOfCountdowns(c)
    IN [operation_duration |->
            IF m = c.operation_duration THEN DEFAULT_OPERATION_DURATION
            ELSE c.operation_duration - m,
        delay_tick_duration |->
            IF m = c.delay_tick_duration THEN DEFAULT_DELAY_TICK_DURATION
            ELSE c.delay_tick_duration - m,
        sound_tick_duration |->
            IF m = c.delay_tick_duration THEN DEFAULT_SOUND_TICK_DURATION
            ELSE c.sound_tick_duration - m,
        duration |-> c.duration - m]

\* ManagedInterpreter::decrement_delay_timer / decrement_sound_timer
decremented(timer) == IF timer > 0 THEN timer - 1 ELSE timer

\* the owner calls simulate_duration with the next duration of its plan; it
\* makes no further call once one has failed
SimulateDuration ==
    /\ Alive
    /\ at = "idle"
    /\ advanced.kind \in {"NotRun", "Ok"}
    /\ calls # <<>>
    /\ duration' = Head(calls)
    /\ calls' = Tail(calls)
    /\ at' = "loop"
    /\ tally' = [tally EXCEPT !.requested = @ + Head(calls)]
    /\ UNCHANGED <<operation_duration, delay_tick_duration, sound_tick_duration,
                   min_dur, advanced, configured, whole>>
    /\ UNCHANGED <<cpu, platform, observed, decoder, crates>>

\* Break with the remainders thrown away: the countdowns are left as they were
BreakForgetsElapsed ==
    /\ at = "loop"
    /\ MinOfCountdowns(Now) > duration
    /\ min_dur' = MinOfCountdowns(Now)
    /\ at' = "idle"
    /\ advanced' = Ok
    /\ whole' = IF calls = <<>> THEN Broken(whole) ELSE whole
    /\ UNCHANGED <<operation_duration, delay_tick_duration, sound_tick_duration,
                   duration, configured, tally, calls>>
    /\ UNCHANGED <<cpu, platform, observed, decoder, crates>>

\* the loop, `if min_dur > duration`: the duration left is taken off the three
\* countdowns and the call returns Ok
Break ==
    /\ at = "loop"
    /\ MinOfCountdowns(Now) > duration
    /\ min_dur' = MinOfCountdowns(Now)
    /\ operation_duration' = operation_duration - duration
    /\ delay_tick_duration' = delay_tick_duration - duration
    /\ sound_tick_duration' = sound_tick_duration - duration
    /\ at' = "idle"
    /\ advanced' = Ok
    /\ whole' = IF calls = <<>> THEN Broken(whole) ELSE whole
    /\ UNCHANGED <<duration, configured, tally, calls>>
    /\ UNCHANGED <<cpu, platform, observed, decoder, crates>>

\* the loop, `if min_dur == self.delay_tick_duration`: both timers are
\* decremented and both timer countdowns are set to their default
TimersTick ==
    /\ at = "loop"
    /\ MinOfCountdowns(Now) <= duration
    /\ MinOfCountdowns(Now) = delay_tick_duration
    /\ min_dur' = MinOfCountdowns(Now)
    /\ delay_timer' = decremented(delay_timer)
    /\ delay_tick_duration' = DEFAULT_DELAY_TICK_DURATION
    /\ sound_timer' = decremented(sound_timer)
    /\ sound_tick_duration' = DEFAULT_SOUND_TICK_DURATION
    /\ at' = "op"
    /\ whole' = Iterated(whole)
    /\ tally' = [tally EXCEPT !.delay_attempts = @ + 1, !.sound_attempts = @ + 1]
    /\ UNCHANGED <<operation_duration, duration, advanced, configured, calls>>
    /\ UNCHANGED <<cpu, frame_buffer, keypad, last_key, observed, decoder, crates>>

\* the else branch of it: min_dur is taken off both timer countdowns
TimersWait ==
    /\ at = "loop"
    /\ MinOfCountdowns(Now) <= duration
    /\ MinOfCountdowns(Now) # delay_tick_duration
    /\ min_dur' = MinOfCountdowns(Now)
    /\ delay_tick_duration' = delay_tick_duration - MinOfCountdowns(Now)
    /\ sound_tick_duration' = sound_tick_duration - MinOfCountdowns(Now)
    /\ at' = "op"
    /\ whole' = Iterated(whole)
    /\ UNCHANGED <<operation_duration, duration, advanced, configured, tally, calls>>
    /\ UNCHANGED <<cpu, platform, observed, decoder, crates>>

\* the loop, `if min_dur == self.operation_duration`: simulate_one_instruction
Instruction ==
    /\ at = "op"
    /\ RunNextInstruction

\* NoInstruction that leaves the operation countdown as it is
NoInstructionKeepsCountdown ==
    /\ at = "op"
    /\ min_dur # operation_duration
    /\ duration' = duration - min_dur
    /\ at' = "loop"
    /\ UNCHANGED <<operation_duration, delay_tick_duration, sound_tick_duration,
                   min_dur, advanced, configured, tally, calls, whole>>
    /\ UNCHANGED <<cpu, platform, observed, decoder, crates>>

\* the else branch of it, and `duration -= min_dur`
NoInstruction ==
    /\ at = "op"
    /\ min_dur # operation_duration
    /\ operation_duration' = operation_duration - min_dur
    /\ duration' = duration - min_dur
    /\ at' = "loop"
    /\ UNCHANGED <<delay_tick_duration, sound_tick_duration, min_dur, advanced,
                   configured, tally, calls, whole>>
    /\ UNCHANGED <<cpu, platform, observed, decoder, crates>>

\* simulate_one_instruction returned Ok: the operation countdown is set to its
\* default, and `duration -= min_dur`
InstructionSucceeded ==
    /\ at = "ran"
    /\ result.kind = "Ok"
    /\ operation_duration' = DEFAULT_OPERATION_DURATION
    /\ duration' = duration - min_dur
    /\ at' = "loop"
    /\ UNCHANGED <<delay_tick_duration, sound_tick_duration, min_dur, advanced,
                   configured, tally, calls, whole>>
    /\ UNCHANGED <<cpu, platform, observed, decoder, crates>>

\* InstructionFailed with the `?` dropped: the loop goes on as after a success
InstructionFailureIgnored ==
    /\ at = "ran"
    /\ result.kind # "Ok"
    /\ operation_duration' = DEFAULT_OPERATION_DURATION
    /\ duration' = duration - min_dur
    /\ at' = "loop"
    /\ UNCHANGED <<delay_tick_duration, sound_tick_duration, min_dur, advanced,
                   configured, tally, calls, whole>>
    /\ UNCHANGED <<cpu, platform, observed, decoder, crates>>

\* simulate_one_instruction()? on an error (or an unwinding call): the call of
\* simulate_duration ends with it there and then
InstructionFailed ==
    /\ at = "ran"
    /\ result.kind # "Ok"
    /\ at' = "idle"
    /\ advanced' = result
    /\ UNCHANGED <<operation_duration, delay_tick_duration, sound_tick_duration,
                   duration, min_dur, configured, tally, calls, whole>>
    /\ UNCHANGED <<cpu, platform, observed, decoder, crates>>

\* the steps made inside a call of simulate_duration
Loop ==
    \/ Break
    \/ TimersTick
    \/ TimersWait
    \/ Instruction
    \/ NoInstruction
    \/ InstructionSucceeded
    \/ InstructionFailed

\* LD V5, 9; LD ST, V5; LD DT, V5; then for ever: LD V1, DT; ADD V2, 1
TimerLoopWords ==
    <<Wxnn(6, 5, 9), W(15, 5, 1, 8), W(15, 5, 1, 5),
      W(15, 1, 0, 7), Wxnn(7, 2, 1), Wnnn(1, ENTRY + 6)>>

\* images that run for ever, return from an empty stack, hit a word that is no
\* instruction, or jump to the last byte of memory
SchedImages ==
    {TimerLoopWords,
     <<Wxnn(6, 0, 1), W(0, 0, 14, 14)>>,
     <<Wxnn(6, 0, 1), Wxnn(7, 0, 1), 65535>>,
     <<Wxnn(6, 0, 1), Wnnn(1, 4095)>>}

\* the durations given to new_with_durations, as <<operation, delay, sound>>:
\* the defaults, another operation period, the sound period above and below
\* the delay period, three equal periods
Periods ==
    {<<DEFAULT_OPERATION_DURATION, DEFAULT_DELAY_TICK_DURATION,
       DEFAULT_SOUND_TICK_DURATION>>,
     <<3000000, DEFAULT_DELAY_TICK_DURATION, DEFAULT_SOUND_TICK_DURATION>>,
     <<2000000, 5000000, 7000000>>,
     <<2000000, 7000000, 5000000>>,
     <<4000000, 4000000, 4000000>>}

\* the durations the scheduler is advanced by
Durations == {d \in {0, 1, 2000000, 3000000, 16666667} : d <= MaxDuration} \cup {MaxDuration}

\* the points a duration is split at
SplitPoints == {0, 1, 1000000, 2000000, 5000000, 16666667}

\* one duration D given as two calls d1, D - d1
Plans ==
    UNION {{<<d1, D - d1>> : d1 \in {s \in SplitPoints : s <= D} \cup {D}} :
              D \in Durations}

InitSched ==
    /\ \E words \in SchedImages, p \in Periods, plan \in Plans :
           new_with_durations(words, p[1], p[2], p[3], plan)
    /\ result = NotRun
    /\ lastOp = NoOperation
    /\ code = 0
    /\ decoded = NotDecoded
    /\ CratesIdle

NextSched == SimulateDuration \/ Loop

SpecSched == InitSched /\ [][NextSched]_vars

\* simulate_duration runs to its return without being suspended
SpecSchedFair == SpecSched /\ WF_vars(Loop)

----------------------------------------------------------------------------
(* The trust crate: Game::play_round and the agents *)

\* the rounds a game is played for
MaxRounds == 8

\* enum Play
Cheat == "Cheat"
Cooperate == "Cooperate"

AgentKinds ==
    {"CheatingAgent", "CooperatingAgent", "GrudgerAgent", "CopycatAgent",
     "DetectiveAgent"}

\* <agent>::new(): every field at its Default, Play::Cooperate being the
\* default Play; an agent holds the fields of its own struct only, the others
\* stay as they are here
NewAgent(kind) ==
    [kind |-> kind, score |-> 0, not_first_play |-> FALSE,
     cheated_once |-> Cooperate, last_play |-> Cooperate,
     counter |-> 0, last_action |-> Cooperate, cheated |-> FALSE]

\* Action::last_play of the five agents
last_play(a) ==
    CASE a.kind = "CheatingAgent" -> Cheat
      [] a.kind = "CooperatingAgent" -> Cooperate
      [] a.kind = "GrudgerAgent" -> Cooperate
      [] a.kind = "CopycatAgent" -> a.last_play
      [] a.kind = "DetectiveAgent" -> a.last_action

\* GrudgerAgent::action: the agent after the call and the Play returned
GrudgerAction(a, lp) ==
    IF ~a.not_first_play
    THEN [agent |-> [a EXCEPT !.not_first_play = TRUE], play |-> Cooperate]
    ELSE LET once == IF lp = Cheat THEN Cheat ELSE a.cheated_once
         IN [agent |-> [a EXCEPT !.cheated_once = once], play |-> once]

\* CopycatAgent::action
CopycatAction(a, lp) ==
    IF ~a.not_first_play
    THEN [agent |-> [a EXCEPT !.not_first_play = TRUE], play |-> Cooperate]
    ELSE [agent |-> [a EXCEPT !.last_play = lp], play |-> lp]

\* DetectiveAgent::action with an opening of three rounds: the loop runs
\* while counter < 4
DetectiveActionShortOpening(a, lp) ==
    LET cheated == a.cheated \/ lp = Cheat
        counter == IF a.counter < 4 THEN a.counter + 1 ELSE a.counter
        opening == a.counter < 4 /\ counter \in {1, 2, 3}
        play == IF opening
                THEN (IF counter = 2 THEN Cheat ELSE Cooperate)
                ELSE IF cheated THEN lp ELSE Cheat
    IN [agent |-> [a EXCEPT !.cheated = cheated, !.counter = counter,
                            !.last_action = play],
        play |-> play]

\* DetectiveAgent::action: the loop `while self.counter < 5` is entered with
\* counter <= 4, returns from its first pass for counter + 1 in 1..4 and falls
\* through with counter = 5 otherwise
DetectiveAction(a, lp) ==
    LET cheated == a.cheated \/ lp = Cheat
        counter == IF a.counter < 5 THEN a.counter + 1 ELSE a.counter
        opening == a.counter < 5 /\ counter \in {1, 2, 3, 4}
        play == IF opening
                THEN (IF counter = 2 THEN Cheat ELSE Cooperate)
                ELSE IF cheated THEN lp ELSE Cheat
    IN [agent |-> [a EXCEPT !.cheated = cheated, !.counter = counter,
                            !.last_action = play],
        play |-> play]

\* Action::action, dispatched on the agent behind the Box<dyn Agent>
action(a, lp) ==
    CASE a.kind = "CheatingAgent" -> [agent |-> a, play |-> Cheat]
      [] a.kind = "CooperatingAgent" -> [agent |-> a, play |-> Cooperate]
      [] a.kind = "GrudgerAgent" -> GrudgerAction(a, lp)
      [] a.kind = "CopycatAgent" -> CopycatAction(a, lp)
      [] a.kind = "DetectiveAgent" -> DetectiveAction(a, lp)

\* Score::upd_score
upd_score(a, value) == [a EXCEPT !.score = @ + value]

\* the match of play_round: the RoundOutcome and the two score changes
Outcome(left_action, right_action) ==
    IF left_action = Cheat
    THEN IF right_action = Cheat
         THEN [outcome |-> "BothCheated", left |-> 0, right |-> 0]
         ELSE [outcome |-> "LeftCheated", left |-> 3, right |-> -1]
    ELSE IF right_action = Cheat
         THEN [outcome |-> "RightCheated", left |-> -1, right |-> 3]
         ELSE [outcome |-> "BothCooperated", left |-> 2, right |-> 2]

\* the body of Game::play_round on the agents l and r: the left agent acts on
\* right.last_play(), then the right agent acts on left.last_play() of the left
\* agent that has just acted; the agents after the round and what was played
Round(l, r) ==
    LET la == action(l, last_play(r))
        ra == action(r, last_play(la.agent))
        o == Outcome(la.play, ra.play)
    IN [left |-> upd_score(la.agent, o.left),
        right |-> upd_score(ra.agent, o.right),
        round |-> [left |-> la.play, right |-> ra.play, outcome |-> o.outcome]]

\* Game::play_round
play_round ==
    LET g == Round(left, right)
    IN /\ left' = g.left
       /\ right' = g.right
       /\ played' = Append(played, g.round)

PlayRound ==
    /\ Len(played) < MaxRounds
    /\ play_round
    /\ UNCHANGED chip8
    /\ UNCHANGED <<perc, mpsc, gc, orm, fswalk, pstack>>

\* the interpreter of the chip8 crate with an empty image, never run
Chip8Idle ==
    /\ new(<<>>)
    /\ result = NotRun
    /\ lastOp = NoOperation
    /\ code = 0
    /\ decoded = NotDecoded

\* Game::new with every pair of the five agents
InitTrust ==
    /\ \E l \in AgentKinds, r \in AgentKinds :
           left = NewAgent(l) /\ right = NewAgent(r)
    /\ played = <<>>
    /\ PercIdle /\ MpscIdle /\ GcIdle /\ OrmIdle /\ FswalkIdle /\ PstackIdle
    /\ Chip8Idle

SpecTrust == InitTrust /\ [][PlayRound]_vars

----------------------------------------------------------------------------
(* The perc crate: percolates *)

\* the grids percolates is called on have at most this many cells
MaxCells == 9

\* width and height of the grids: every shape of at most MaxCells cells, and
\* the empty shapes
Shapes == {sh \in (0..MaxCells) \X (0..MaxCells) : sh[1] * sh[2] <= MaxCells}

\* the BoolGrid values of these shapes: data[x][y], x < width, y < height
Grids ==
    UNION {[width : {sh[1]}, height : {sh[2]},
            data : [0..(sh[1] - 1) -> [0..(sh[2] - 1) -> BOOLEAN]]] : sh \in Shapes}

\* BoolGrid::dfs_roots: the vacant cells with y = 0, by ascending x
dfs_roots(g) ==
    IF g.height = 0 THEN <<>>
    ELSE SelectSeq([i \in 1..g.width |-> <<i - 1, 0>>],
                   LAMBDA c : ~g.data[c[1]][c[2]])

\* neighbours that looks above and below only
neighbours_vertical(g, x, y) ==
    SelectSeq(<<<<x, y - 1>>, <<x, y + 1>>>>,
              LAMBDA c : /\ c[1] >= 0 /\ c[1] < g.width
                         /\ c[2] >= 0 /\ c[2] < g.height
                         /\ ~g.data[c[1]][c[2]])

\* BoolGrid::neighbours: the cells at the offsets (-1, 0), (0, -1), (0, 1),
\* (1, 0), in that order, that are inside the grid and vacant
neighbours(g, x, y) ==
    SelectSeq(<<<<x - 1, y>>, <<x, y - 1>>, <<x, y + 1>>, <<x + 1, y>>>>,
              LAMBDA c : /\ c[1] >= 0 /\ c[1] < g.width
                         /\ c[2] >= 0 /\ c[2] < g.height
                         /\ ~g.data[c[1]][c[2]])

\* the for loop of percolates over the neighbours nbs: one not yet in visited
\* is inserted and pushed to the front of the queue
RECURSIVE VisitNeighbours(_, _, _)
VisitNeighbours(nbs, queue, visited) ==
    IF nbs = <<>> THEN [queue |-> queue, visited |-> visited]
    ELSE IF Head(nbs) \in visited
    THEN VisitNeighbours(Tail(nbs), queue, visited)
    ELSE VisitNeighbours(Tail(nbs), <<Head(nbs)>> \o queue, visited \cup {Head(nbs)})

\* the while loop of percolates: pop_front until a cell of the last row is
\* popped or the queue is empty
RECURSIVE Search(_, _, _)
Search(g, queue, visited) ==
    IF queue = <<>> THEN FALSE
    ELSE LET cell == Head(queue)
         IN IF cell[2] = g.height - 1 THEN TRUE
            ELSE LET v == VisitNeighbours(neighbours(g, cell[1], cell[2]),
                                          Tail(queue), visited)
                 IN Search(g, v.queue, v.visited)

\* percolates
percolates(g) ==
    IF g.height = 0 \/ g.width = 0 THEN TRUE
    ELSE LET roots == dfs_roots(g)
         IN IF roots = <<>> THEN FALSE
            ELSE Search(g, roots, {})

Percolates ==
    /\ ~percolated.called
    /\ percolated' = [called |-> TRUE, value |-> percolates(grid)]
    /\ UNCHANGED grid
    /\ UNCHANGED chip8
    /\ UNCHANGED <<trust, mpsc, gc, orm, fswalk, pstack>>

\* percolates is called once on each grid
InitPerc ==
    /\ grid \in Grids
    /\ percolated = [called |-> FALSE]
    /\ TrustIdle /\ MpscIdle /\ GcIdle /\ OrmIdle /\ FswalkIdle /\ PstackIdle
    /\ Chip8Idle

SpecPerc == InitPerc /\ [][Percolates]_vars

----------------------------------------------------------------------------
(* The mpsc crate: a channel of one Receiver and the Senders cloned from   *)
(* the first.  The values sent are the numbers of the send calls.          *)

MaxSenders == 2
MaxMessages == 3
MaxRecvs == 4

\* Rc::strong_count(&self.inner): one for each live Sender, one for the Receiver
strong_count == channel.senders + 1

\* Sender::is_closed
is_closed == inner.state = "Closed"

\* Sender::send; channel.accepted lists the values it took
send(value) ==
    IF is_closed
    THEN /\ channel' = [channel EXCEPT !.sends = @ + 1,
                                       !.sent = [kind |-> "Err", value |-> value]]
         /\ UNCHANGED inner
    ELSE /\ inner' = [inner EXCEPT !.buffer = Append(@, value)]
         /\ channel' = [channel EXCEPT !.sends = @ + 1,
                                       !.sent = [kind |-> "Ok"],
                                       !.accepted = Append(@, value)]

\* Receiver::recv with a match that answers Closed before it looks at the buffer
recv_closed_first ==
    LET r == IF inner.state = "Closed" THEN [kind |-> "Closed"]
             ELSE IF inner.buffer = <<>> THEN [kind |-> "Empty"]
             ELSE [kind |-> "Ok", value |-> Head(inner.buffer)]
    IN /\ inner' = [inner EXCEPT !.buffer = IF r.kind = "Ok" THEN Tail(@) ELSE @]
       /\ channel' = [channel EXCEPT !.recvs = @ + 1,
                                     !.received = r,
                                     !.delivered = IF r.kind = "Ok" THEN @ + 1 ELSE @]

\* Receiver::recv
recv ==
    LET r == IF inner.state = "Open" /\ inner.buffer = <<>> THEN [kind |-> "Empty"]
             ELSE IF inner.buffer = <<>> THEN [kind |-> "Closed"]
             ELSE [kind |-> "Ok", value |-> Head(inner.buffer)]
    IN /\ inner' = [inner EXCEPT !.buffer = IF r.kind = "Ok" THEN Tail(@) ELSE @]
       /\ channel' = [channel EXCEPT !.recvs = @ + 1,
                                     !.received = r,
                                     !.delivered = IF r.kind = "Ok" THEN @ + 1 ELSE @]

\* Receiver::close
close ==
    /\ inner' = [inner EXCEPT !.state = "Closed"]
    /\ channel' = [channel EXCEPT !.closed = TRUE]

\* impl Clone for Sender
clone ==
    /\ channel' = [channel EXCEPT !.senders = @ + 1]
    /\ UNCHANGED inner

\* impl Drop for Sender
drop ==
    /\ inner' = IF strong_count = 2 THEN [inner EXCEPT !.state = "Closed"] ELSE inner
    /\ channel' = [channel EXCEPT !.senders = @ - 1]

Send ==
    /\ channel.senders > 0
    /\ channel.sends < MaxMessages
    /\ send(channel.sends + 1)
    /\ UNCHANGED <<chip8, trust, perc, gc, orm, fswalk, pstack>>

Recv ==
    /\ channel.recvs < MaxRecvs
    /\ recv
    /\ UNCHANGED <<chip8, trust, perc, gc, orm, fswalk, pstack>>

Close ==
    /\ close
    /\ UNCHANGED <<chip8, trust, perc, gc, orm, fswalk, pstack>>

CloneSender ==
    /\ channel.senders > 0
    /\ channel.senders < MaxSenders
    /\ clone
    /\ UNCHANGED <<chip8, trust, perc, gc, orm, fswalk, pstack>>

DropSender ==
    /\ channel.senders > 0
    /\ drop
    /\ UNCHANGED <<chip8, trust, perc, gc, orm, fswalk, pstack>>

\* channel()
InitMpsc ==
    /\ inner = [buffer |-> <<>>, state |-> "Open"]
    /\ channel = [senders |-> 1, sends |-> 0, accepted |-> <<>>, delivered |-> 0,
                  recvs |-> 0, closed |-> FALSE,
                  sent |-> [kind |-> "None"], received |-> [kind |-> "None"]]
    /\ TrustIdle /\ PercIdle /\ GcIdle /\ OrmIdle /\ FswalkIdle /\ PstackIdle
    /\ Chip8Idle

NextMpsc ==
    \/ Send
    \/ Recv
    \/ Close
    \/ CloneSender
    \/ DropSender

SpecMpsc == InitMpsc /\ [][NextMpsc]_vars

----------------------------------------------------------------------------
(* The gc crate: an Arena of objects of one struct with #[derive(Scan)]    *)
(* and two named fields, first and second, each an Option<Gc<..>> in a     *)
(* RefCell: 0 for None, else the address held.  An object's address is the *)
(* number of its allocation.                                               *)

MaxObjects == 2
MaxSweeps == 2

\* the objects arena.alloc can have made and the fields they can have been given
Heaps ==
    UNION {{[i \in 1..n |-> [addr |-> i, first |-> f[i], second |-> g[i]]] :
                f \in [1..n -> 0..n], g \in [1..n -> 0..n]} : n \in 0..MaxObjects}

\* the Gc handles of each allocation that the program may still hold
Handles(n) == [1..n -> 0..1]

\* derive_scan, the generated get_objects: self.#field_ident.get_objects() of
\* the first named field
get_objects(obj) == IF obj.first = 0 THEN <<>> ELSE <<obj.first>>

\* idx_by_obj of sweep: the index of the allocation at an address
idx_by_obj(a, x) == CHOOSE i \in 1..Len(a) : a[i].addr = x

\* graph of sweep
graph(a) == [i \in 1..Len(a) |->
                LET objs == get_objects(a[i])
                IN [k \in 1..Len(objs) |-> idx_by_obj(a, objs[k])]]

\* point_to of sweep: how often graph names each index
point_to(a) == [i \in 1..Len(a) |->
                   Cardinality({<<j, k>> \in (1..Len(a)) \X (1..1) :
                                    k <= Len(graph(a)[j]) /\ graph(a)[j][k] = i})]

\* Rc::weak_count(&self.0[i]): the Gc handles outside the arena and the Gc
\* values in the fields of the objects alive
weak_count(a, o, i) ==
    o[a[i].addr]
    + Cardinality({j \in 1..Len(a) : a[j].first = a[i].addr})
    + Cardinality({j \in 1..Len(a) : a[j].second = a[i].addr})

\* Arena::mark_all
RECURSIVE mark_all(_, _, _)
RECURSIVE mark_each(_, _, _, _)
mark_each(us, k, marked, g) ==
    IF k > Len(us) THEN marked
    ELSE mark_each(us, k + 1, mark_all(us[k], marked, g), g)

mark_all(root_addr, marked, g) ==
    IF root_addr \in marked THEN marked
    ELSE mark_each(g[root_addr], 1, marked \cup {root_addr}, g)

\* for (i, count) in point_to.iter().enumerate() { if weak_count > count { mark_all } }
RECURSIVE MarkRoots(_, _, _, _)
MarkRoots(a, o, i, marked) ==
    IF i > Len(a) THEN marked
    ELSE MarkRoots(a, o, i + 1,
                   IF weak_count(a, o, i) > point_to(a)[i]
                   THEN mark_all(i, marked, graph(a)) ELSE marked)

\* the loop with swap(j, i) and truncate(j)
RECURSIVE Compact(_, _, _, _)
Compact(a, marked, i, j) ==
    IF i > Len(a) THEN SubSeq(a, 1, j - 1)
    ELSE IF i \in marked
         THEN Compact(IF i > j THEN [a EXCEPT ![j] = a[i], ![i] = a[j]] ELSE a,
                      marked, i + 1, j + 1)
         ELSE Compact(a, marked, i + 1, j)

\* Arena::sweep
sweep(a, o) == Compact(a, MarkRoots(a, o, 1, {}), 1, 1)

\* Arena::allocation_count
allocation_count == Len(arena)

Sweep ==
    /\ swept < MaxSweeps
    /\ arena' = sweep(arena, owned)
    /\ swept' = swept + 1
    /\ UNCHANGED owned
    /\ UNCHANGED <<chip8, trust, perc, mpsc, orm, fswalk, pstack>>

\* every heap of up to MaxObjects allocations, with any of the handles kept
InitGc ==
    /\ arena \in Heaps
    /\ owned \in Handles(Len(arena))
    /\ swept = 0
    /\ TrustIdle /\ PercIdle /\ MpscIdle /\ OrmIdle /\ FswalkIdle /\ PstackIdle
    /\ Chip8Idle

SpecGc == InitGc /\ [][Sweep]_vars

----------------------------------------------------------------------------
(* The orm crate: one Transaction over a StorageTransaction whose calls    *)
(* may each return an error.  A cached node is known by (TypeId, ObjectId); *)
(* storage.issued lists the storage calls the last operation made.         *)

Types == {"A", "B"}
MaxIds == 2
MaxNodes == 3
Keys == Types \X (1..MaxIds)

\* ObjectNode: state and the RefCell borrow flag of obj
Node(state) == [state |-> state, borrows |-> "None"]

Call(name, type, id) == [call |-> name, type |-> type, id |-> id, ok |-> TRUE]

\* the calls made out of those planned when the fails-th of them returns Err
\* (`?` returns at once), all of them when fails is 0
Issued(planned, fails) ==
    IF fails = 0 THEN planned
    ELSE [i \in 1..fails |-> IF i = fails THEN [planned[i] EXCEPT !.ok = FALSE]
                                         ELSE planned[i]]

Failed(issued) == \E i \in 1..Len(issued) : ~issued[i].ok

\* what the calls made leave in storage
AfterCalls(issued) ==
    LET done(name) == {<<issued[i].type, issued[i].id>> :
                           i \in {k \in 1..Len(issued) : issued[k].ok /\ issued[k].call = name}}
    IN [storage EXCEPT
          !.issued = issued,
          !.tables = @ \cup {k[1] : k \in done("create_table")},
          !.rows = (@ \cup done("insert_row")) \ done("delete_row"),
          !.last = [t \in Types |-> IF \E k \in done("insert_row") : k[1] = t
                                    THEN @[t] + 1 ELSE @[t]]]

\* Transaction::create_if_not_exists
create_if_not_exists(type) ==
    <<Call("table_exists", type, 0)>>
    \o (IF type \in storage.tables THEN <<>> ELSE <<Call("create_table", type, 0)>>)

\* Transaction::create
create(type, fails) ==
    LET id == storage.last[type] + 1
        issued == Issued(create_if_not_exists(type) \o <<Call("insert_row", type, id)>>, fails)
    IN /\ storage' = AfterCalls(issued)
       /\ IF Failed(issued)
          THEN /\ reply' = [op |-> "create", kind |-> "Err"]
               /\ UNCHANGED cache
          ELSE /\ reply' = [op |-> "create", kind |-> "Ok", type |-> type, id |-> id]
               /\ cache' = (<<type, id>> :> Node("Clean")) @@ cache

\* Transaction::get that hands out a cached node whatever its state
get_any_state(type, id, fails) ==
    IF <<type, id>> \in DOMAIN cache
    THEN /\ fails = 0
         /\ reply' = [op |-> "get", kind |-> "Ok", type |-> type, id |-> id]
         /\ storage' = AfterCalls(<<>>)
         /\ UNCHANGED cache
    ELSE LET issued == Issued(create_if_not_exists(type) \o <<Call("select_row", type, id)>>,
                              fails)
         IN /\ storage' = AfterCalls(issued)
            /\ IF Failed(issued)
               THEN /\ reply' = [op |-> "get", kind |-> "Err", type |-> type, id |-> id]
                    /\ UNCHANGED cache
               ELSE IF <<type, id>> \notin storage.rows
               THEN /\ reply' = [op |-> "get", kind |-> "NotFound", type |-> type, id |-> id,
                                 object_id |-> id, type_name |-> type]
                    /\ UNCHANGED cache
               ELSE /\ reply' = [op |-> "get", kind |-> "Ok", type |-> type, id |-> id]
                    /\ cache' = (<<type, id>> :> Node("Clean")) @@ cache

\* Transaction::get
get(type, id, fails) ==
    IF <<type, id>> \in DOMAIN cache
    THEN /\ fails = 0
         /\ reply' = IF cache[<<type, id>>].state = "Removed"
                     THEN [op |-> "get", kind |-> "NotFound", type |-> type, id |-> id,
                           object_id |-> id, type_name |-> type]
                     ELSE [op |-> "get", kind |-> "Ok", type |-> type, id |-> id]
         /\ storage' = AfterCalls(<<>>)
         /\ UNCHANGED cache
    ELSE LET issued == Issued(create_if_not_exists(type) \o <<Call("select_row", type, id)>>,
                              fails)
         IN /\ storage' = AfterCalls(issued)
            /\ IF Failed(issued)
               THEN /\ reply' = [op |-> "get", kind |-> "Err", type |-> type, id |-> id]
                    /\ UNCHANGED cache
               ELSE IF <<type, id>> \notin storage.rows
               THEN /\ reply' = [op |-> "get", kind |-> "NotFound", type |-> type, id |-> id,
                                 object_id |-> id, type_name |-> type]
                    /\ UNCHANGED cache
               ELSE /\ reply' = [op |-> "get", kind |-> "Ok", type |-> type, id |-> id]
                    /\ cache' = (<<type, id>> :> Node("Clean")) @@ cache

\* a panic: the call does not return and the Transaction is dropped
Panics(op, key) ==
    /\ reply' = [op |-> op, kind |-> "Panic", type |-> key[1], id |-> key[2]]
    /\ storage' = [AfterCalls(<<>>) EXCEPT !.ended = "Panicked"]

Returns(op, key) ==
    /\ reply' = [op |-> op, kind |-> "Ok", type |-> key[1], id |-> key[2]]
    /\ storage' = AfterCalls(<<>>)

\* Tx::borrow
borrow(key) ==
    IF cache[key].state = "Removed" \/ cache[key].borrows = "RefMut"
    THEN Panics("borrow", key) /\ UNCHANGED cache
    ELSE Returns("borrow", key) /\ cache' = [cache EXCEPT ![key].borrows = "Ref"]

\* Tx::borrow_mut
borrow_mut(key) ==
    LET state == IF cache[key].state = "Clean" THEN "Modified" ELSE cache[key].state
    IN IF cache[key].state = "Removed"
       THEN Panics("borrow_mut", key) /\ UNCHANGED cache
       ELSE IF cache[key].borrows # "None"
       THEN Panics("borrow_mut", key) /\ cache' = [cache EXCEPT ![key].state = state]
       ELSE /\ Returns("borrow_mut", key)
            /\ cache' = [cache EXCEPT ![key] = [state |-> state, borrows |-> "RefMut"]]

\* Tx::delete
delete(key) ==
    IF cache[key].borrows # "None"
    THEN Panics("delete", key) /\ UNCHANGED cache
    ELSE Returns("delete", key) /\ cache' = [cache EXCEPT ![key].state = "Removed"]

\* the storage writes of commit for the nodes in the order the cache yields them
RECURSIVE Writes(_)
Writes(order) ==
    IF order = <<>> THEN <<>>
    ELSE LET node == cache[Head(order)]
             type == Head(order)[1]
             id == Head(order)[2]
         IN (CASE node.state = "Clean" -> <<>>
               [] node.state = "Modified" -> <<Call("update_row", type, id)>>
               [] node.state = "Removed" -> <<Call("delete_row", type, id)>>)
            \o Writes(Tail(order))

\* Transaction::commit that does not write the removals
commit_keeps_removed(order, fails) ==
    LET kept == SelectSeq(Writes(order), LAMBDA w : w.call # "delete_row")
        issued == Issued(kept \o <<Call("commit", "", 0)>>, fails)
    IN /\ storage' = [AfterCalls(issued) EXCEPT
                         !.ended = IF Failed(issued) THEN "Failed" ELSE "Committed"]
       /\ reply' = [op |-> "commit", kind |-> IF Failed(issued) THEN "Err" ELSE "Ok"]
       /\ UNCHANGED cache

\* Transaction::commit
commit(order, fails) ==
    LET issued == Issued(Writes(order) \o <<Call("commit", "", 0)>>, fails)
    IN /\ storage' = [AfterCalls(issued) EXCEPT
                         !.ended = IF Failed(issued) THEN "Failed" ELSE "Committed"]
       /\ reply' = [op |-> "commit", kind |-> IF Failed(issued) THEN "Err" ELSE "Ok"]
       /\ UNCHANGED cache

\* Transaction::rollback
rollback(fails) ==
    LET issued == Issued(<<Call("rollback", "", 0)>>, fails)
    IN /\ storage' = [AfterCalls(issued) EXCEPT !.ended = "RolledBack"]
       /\ reply' = [op |-> "rollback", kind |-> IF Failed(issued) THEN "Err" ELSE "Ok"]
       /\ UNCHANGED cache

\* the orders in which HashMap::values can yield the cached nodes
Orders ==
    {o \in [1..Cardinality(DOMAIN cache) -> DOMAIN cache] :
         \A i, j \in DOMAIN o : i # j => o[i] # o[j]}

Running == storage.ended = "No"

Create ==
    /\ Running
    /\ \E type \in Types, fails \in 0..3 :
           /\ storage.last[type] < MaxIds
           /\ Cardinality(DOMAIN cache) < MaxNodes
           /\ fails <= Len(create_if_not_exists(type)) + 1
           /\ create(type, fails)
    /\ UNCHANGED <<chip8, trust, perc, mpsc, gc, fswalk, pstack>>

Get ==
    /\ Running
    /\ \E type \in Types, id \in 1..MaxIds, fails \in 0..3 :
           /\ <<type, id>> \in DOMAIN cache \/ Cardinality(DOMAIN cache) < MaxNodes
           /\ fails <= Len(create_if_not_exists(type)) + 1
           /\ get(type, id, fails)
    /\ UNCHANGED <<chip8, trust, perc, mpsc, gc, fswalk, pstack>>

Borrow ==
    /\ Running
    /\ \E key \in DOMAIN cache : borrow(key)
    /\ UNCHANGED <<chip8, trust, perc, mpsc, gc, fswalk, pstack>>

BorrowMut ==
    /\ Running
    /\ \E key \in DOMAIN cache : borrow_mut(key)
    /\ UNCHANGED <<chip8, trust, perc, mpsc, gc, fswalk, pstack>>

\* the Ref or RefMut of an object goes out of scope
Release ==
    /\ Running
    /\ \E key \in DOMAIN cache :
           /\ cache[key].borrows # "None"
           /\ cache' = [cache EXCEPT ![key].borrows = "None"]
           /\ Returns("release", key)
    /\ UNCHANGED <<chip8, trust, perc, mpsc, gc, fswalk, pstack>>

Delete ==
    /\ Running
    /\ \E key \in DOMAIN cache : delete(key)
    /\ UNCHANGED <<chip8, trust, perc, mpsc, gc, fswalk, pstack>>

\* commit(self) and rollback(self) take the Transaction by value: no Tx and no
\* Ref or RefMut borrowed from it is alive
Commit ==
    /\ Running
    /\ \A key \in DOMAIN cache : cache[key].borrows = "None"
    /\ \E order \in Orders, fails \in 0..(MaxNodes + 1) :
           /\ fails <= Len(Writes(order)) + 1
           /\ commit(order, fails)
    /\ UNCHANGED <<chip8, trust, perc, mpsc, gc, fswalk, pstack>>

Rollback ==
    /\ Running
    /\ \A key \in DOMAIN cache : cache[key].borrows = "None"
    /\ \E fails \in 0..1 : rollback(fails)
    /\ UNCHANGED <<chip8, trust, perc, mpsc, gc, fswalk, pstack>>

\* Transaction::new over a database that holds some tables and rows
InitOrm ==
    /\ cache = <<>>
    /\ \E tables \in SUBSET Types, filled \in SUBSET Types :
           /\ filled \subseteq tables
           /\ storage = [tables |-> tables,
                         rows |-> {<<t, 1>> : t \in filled},
                         last |-> [t \in Types |-> IF t \in filled THEN 1 ELSE 0],
                         issued |-> <<>>,
                         ended |-> "No"]
    /\ reply = [kind |-> "None"]
    /\ TrustIdle /\ PercIdle /\ MpscIdle /\ GcIdle /\ FswalkIdle /\ PstackIdle
    /\ Chip8Idle

NextOrm ==
    \/ Create
    \/ Get
    \/ Borrow
    \/ BorrowMut
    \/ Release
    \/ Delete
    \/ Commit
    \/ Rollback

SpecOrm == InitOrm /\ [][NextOrm]_vars

----------------------------------------------------------------------------
(* The fswalk crate: Walker::walk over a directory tree.  tree lists the   *)
(* entries below the root, each with its parent (0 for the root) and what   *)
(* its path is: a file, a directory or neither.  A callback is known by its *)
(* number and by the entries on whose handle it calls descend() or read().  *)

MaxEntries == 3
MaxCallbacks == 2

EntryKinds == {"File", "Dir", "Other"}

\* the trees of n entries: an entry lies in the root or in a directory listed before it
Trees(n) ==
    {t \in [1..n -> [parent : 0..n, kind : EntryKinds]] :
         \A e \in 1..n : /\ t[e].parent < e
                         /\ t[e].parent # 0 => t[t[e].parent].kind = "Dir"}

\* what a callback can do on a tree: the entries on whose handle it calls
\* descend() or read() are files and directories, each in the root or in a
\* directory it descends into
Wants(t) ==
    {w \in [1..Len(t) -> BOOLEAN] :
         \A e \in 1..Len(t) :
             w[e] => /\ t[e].kind # "Other"
                     /\ t[e].parent # 0 => w[t[e].parent]}

\* the callbacks add_callback can have registered
Callbacks(t) ==
    UNION {{[c \in 1..m |-> [id |-> c, wants |-> w[c]]] : w \in [1..m -> Wants(t)]} :
               m \in 0..MaxCallbacks}

\* fs::read_dir(dir): the entries of a directory, in the order of the listing
RECURSIVE read_dir(_, _)
read_dir(dir, from) ==
    IF from > Len(tree) THEN <<>>
    ELSE (IF tree[from].parent = dir THEN <<from>> ELSE <<>>) \o read_dir(dir, from + 1)

\* Walker::checked that leaves the flag of the handle set
checked_keeps_flag(flag) == [fl |-> flag, flag |-> flag]

\* Walker::checked: takes the descend or read flag of the handle and clears it
checked(flag) == [fl |-> flag, flag |-> FALSE]

\* callbacks.swap(idx, i)
swap(cbs, idx, i) == [cbs EXCEPT ![idx] = cbs[i], ![i] = cbs[idx]]

\* for i in 0..callbacks.len() { callbacks[i](&mut handle); if checked { ... } }:
\* the callbacks as reordered, idx, and the calls made; flag is the flag of the
\* handle, set by a callback that calls descend() or read()
RECURSIVE Offer(_, _, _, _, _, _)
Offer(entry, cbs, i, idx, flag, log) ==
    IF i > Len(cbs) THEN [callbacks |-> cbs, idx |-> idx, log |-> log]
    ELSE LET called == Append(log, [callback |-> cbs[i].id, entry |-> entry,
                                    handle |-> tree[entry].kind])
             c == checked(flag \/ cbs[i].wants[entry])
         IN IF c.fl
            THEN Offer(entry, IF idx + 1 < i THEN swap(cbs, idx + 1, i) ELSE cbs,
                       i + 1, idx + 1, c.flag, called)
            ELSE Offer(entry, cbs, i + 1, idx, c.flag, called)

\* for cb in callbacks.iter_mut().take(idx) { cb(&mut content_handle) }
Contents(entry, cbs, idx) ==
    [i \in 1..idx |-> [callback |-> cbs[i].id, entry |-> entry, handle |-> "Content"]]

\* Walker::rec_walk on the entries of a directory from the k-th on: the
\* callbacks as reordered and the calls made
RECURSIVE rec_walk(_, _, _, _)
rec_walk(entries, k, cbs, log) ==
    IF k > Len(entries) THEN [callbacks |-> cbs, log |-> log]
    ELSE LET entry == entries[k]
         IN IF tree[entry].kind = "Other"
            THEN rec_walk(entries, k + 1, cbs, log)
            ELSE LET o == Offer(entry, cbs, 1, 0, FALSE, log)
                     rest == SubSeq(o.callbacks, o.idx + 1, Len(cbs))
                 IN IF tree[entry].kind = "Dir"
                    THEN LET below == rec_walk(read_dir(entry, 1), 1,
                                               SubSeq(o.callbacks, 1, o.idx), o.log)
                         IN rec_walk(entries, k + 1, below.callbacks \o rest, below.log)
                    ELSE rec_walk(entries, k + 1, o.callbacks,
                                  o.log \o Contents(entry, o.callbacks, o.idx))

\* Walker::walk
walk ==
    IF callbacks = <<>>
    THEN /\ walked' = [done |-> TRUE, log |-> <<>>]
         /\ UNCHANGED callbacks
    ELSE LET w == rec_walk(read_dir(0, 1), 1, callbacks, <<>>)
         IN /\ walked' = [done |-> TRUE, log |-> w.log]
            /\ callbacks' = w.callbacks

Walk ==
    /\ ~walked.done
    /\ walk
    /\ UNCHANGED tree
    /\ UNCHANGED <<chip8, trust, perc, mpsc, gc, orm, pstack>>

\* Walker::new, add_callback for each callback, and a tree to walk
InitFswalk ==
    /\ \E n \in 0..MaxEntries : tree \in Trees(n)
    /\ callbacks \in Callbacks(tree)
    /\ walked = [done |-> FALSE]
    /\ TrustIdle /\ PercIdle /\ MpscIdle /\ GcIdle /\ OrmIdle /\ PstackIdle
    /\ Chip8Idle

SpecFswalk == InitFswalk /\ [][Walk]_vars

----------------------------------------------------------------------------
(* The pstack crate.  nodes holds every Node ever allocated, at the index   *)
(* that is its address, with the strong count of its Rc (0 once freed);     *)
(* stacks holds the PStack values the program has made, each with the        *)
(* values pushed to reach it, newest first, and whether it is still held.    *)

MaxStacks == 4
Values == {1, 2}

\* Rc::clone of an Option<Rc<Node>>
Retain(ns, a) == IF a = 0 THEN ns ELSE [ns EXCEPT ![a].strong = @ + 1]

\* drop of an Option<Rc<Node>>: the last reference frees the node and drops its next
RECURSIVE DropRc(_, _)
DropRc(ns, a) ==
    IF a = 0 THEN ns
    ELSE IF ns[a].strong > 1 THEN [ns EXCEPT ![a].strong = @ - 1]
    ELSE DropRc([ns EXCEPT ![a].strong = 0], ns[a].next)

\* PStack::push that stores the value in the head node of self when there is one
push_in_place(ns, self, value) ==
    IF self.head = 0
    THEN [nodes |-> Append(ns, [value |-> value, next |-> 0, strong |-> 1]),
          stack |-> [head |-> Len(ns) + 1, len |-> self.len + 1]]
    ELSE [nodes |-> Retain([ns EXCEPT ![self.head].value = value], self.head),
          stack |-> [head |-> self.head, len |-> self.len + 1]]

\* PStack::push
push(ns, self, value) ==
    [nodes |-> Append(Retain(ns, self.head),
                      [value |-> value, next |-> self.head, strong |-> 1]),
     stack |-> [head |-> Len(ns) + 1, len |-> self.len + 1]]

\* PStack::pop
pop(ns, self) ==
    IF self.head = 0 THEN [kind |-> "None"]
    ELSE [kind |-> "Some",
          value |-> ns[self.head].value,
          nodes |-> Retain(ns, ns[self.head].next),
          stack |-> [head |-> ns[self.head].next, len |-> self.len - 1]]

\* PStack::iter().collect(): PStackIter::next until None
RECURSIVE iter(_, _)
iter(ns, next) ==
    IF next = 0 THEN <<>>
    ELSE IF ns[next].strong = 0 THEN <<"freed">>
    ELSE <<ns[next].value>> \o iter(ns, ns[next].next)

\* PStack::len
len(self) == self.len

Held == {s \in 1..Len(stacks) : stacks[s].held}

Keep(stack, pushed) ==
    [held |-> TRUE, head |-> stack.head, len |-> stack.len, pushed |-> pushed]

\* PStack::new
NewStack ==
    /\ Len(stacks) < MaxStacks
    /\ stacks' = Append(stacks, Keep([head |-> 0, len |-> 0], <<>>))
    /\ UNCHANGED nodes
    /\ UNCHANGED <<chip8, trust, perc, mpsc, gc, orm, fswalk>>

Push ==
    /\ Len(stacks) < MaxStacks
    /\ \E s \in Held, value \in Values :
           LET p == push(nodes, stacks[s], value)
           IN /\ nodes' = p.nodes
              /\ stacks' = Append(stacks, Keep(p.stack, <<value>> \o stacks[s].pushed))
    /\ UNCHANGED <<chip8, trust, perc, mpsc, gc, orm, fswalk>>

Pop ==
    /\ Len(stacks) < MaxStacks
    /\ \E s \in Held :
           LET p == pop(nodes, stacks[s])
           IN IF p.kind = "None"
              THEN UNCHANGED <<nodes, stacks>>
              ELSE /\ nodes' = p.nodes
                   /\ stacks' = Append(stacks, Keep(p.stack, Tail(stacks[s].pushed)))
    /\ UNCHANGED <<chip8, trust, perc, mpsc, gc, orm, fswalk>>

\* impl Clone for PStack
Clone ==
    /\ Len(stacks) < MaxStacks
    /\ \E s \in Held :
           /\ nodes' = Retain(nodes, stacks[s].head)
           /\ stacks' = Append(stacks, stacks[s])
    /\ UNCHANGED <<chip8, trust, perc, mpsc, gc, orm, fswalk>>

\* a PStack goes out of scope
Drop ==
    /\ \E s \in Held :
           /\ nodes' = DropRc(nodes, stacks[s].head)
           /\ stacks' = [stacks EXCEPT ![s].held = FALSE]
    /\ UNCHANGED <<chip8, trust, perc, mpsc, gc, orm, fswalk>>

InitPstack ==
    /\ nodes = <<>>
    /\ stacks = <<>>
    /\ TrustIdle /\ PercIdle /\ MpscIdle /\ GcIdle /\ OrmIdle /\ FswalkIdle
    /\ Chip8Idle

NextPstack ==
    \/ NewStack
    \/ Push
    \/ Pop
    \/ Clone
    \/ Drop

SpecPstack == InitPstack /\ [][NextPstack]_vars

----------------------------------------------------------------------------
(* Properties *)

\* a step that is a call of run_next_instruction: set_key_down is the only other
\* step, and it changes the keypad or the last key whenever it changes anything
RunStep == UNCHANGED <<keypad, last_key>>

\* run_next_instruction is about to run the handler of the variant kind
About(kind) == Alive /\ FetchInBounds /\ Fetched.ok /\ Fetched.op.kind = kind

\* C1: a CALL made with fewer than 16 entries on the call stack pushes pc + 2 and
\* jumps to its address, and a CALL made with 16 entries on the call stack
\* returns the stack-overflow error and leaves the interpreter as it was
C1_CallSucceedsOrOverflows ==
    [][(About("Call") /\ RunStep) =>
         IF sp < STACK_SIZE
         THEN /\ result' = Ok
              /\ call_stack' = [call_stack EXCEPT ![sp] = pc + 2]
              /\ sp' = sp + 1
              /\ pc' = Fetched.op.nnn
         ELSE /\ result' = StackOverflow
              /\ UNCHANGED cpu]_vars

\* C2: when the fetched word matches no instruction shape, run_next_instruction
\* returns the decode error that carries this very word
C2_DecodeErrorCarriesWord ==
    [][(Alive /\ FetchInBounds /\ ~Fetched.ok /\ RunStep) =>
         result' = [kind |-> "UnknownOpCode", code |-> extract_opcode]]_vars

\* C3: SKP Vx and SKNP Vx executed with Vx > 15 return the invalid-key error
C3_KeyTestReturnsInvalidKey ==
    [][((About("SkipIfKeyDown") \/ About("SkipIfKeyUp")) /\ RunStep
          /\ registers[Fetched.op.x] > KEYPAD_LAST) =>
         result'.kind = "InvalidKey"]_vars

\* C4: LD Vx,K executed while a key is down sets Vx to the highest key that is
\* down and advances the program counter by 2
C4_WaitForKeySetsRegister ==
    [][(About("WaitForKey") /\ RunStep /\ KeysDown # {}) =>
         /\ registers'[Fetched.op.x] = LastKeyDown
         /\ pc' = pc + 2]_vars

\* C5: LD Vx,K executed while no key is down returns Ok and changes nothing: the
\* program counter, registers, memory, index register and stack stay, and so
\* the same instruction is the one fetched by the next call
C5_WaitForKeyBusyWaits ==
    [][(About("WaitForKey") /\ RunStep /\ KeysDown = {}) =>
         /\ result' = Ok
         /\ UNCHANGED cpu
         /\ UNCHANGED platform
         /\ lastOp' = Fetched.op
         /\ extract_opcode' = extract_opcode]_vars

\* C5 witness: the wait at the second word of a key image has run with no key
\* down and the program counter is still on it
C5_Witness ==
    /\ lastOp.kind = "WaitForKey"
    /\ result = Ok
    /\ pc = ENTRY + 2
    /\ KeysDown = {}
    /\ registers[lastOp.x] = 9

\* C6: LD DT,Vx sets the delay timer to Vx, LD ST,Vx sets the sound timer to Vx
\* and LD Vx,DT sets Vx to the delay timer
C6_TimerAccessMovesValues ==
    [][/\ (About("SetDelayTimer") /\ RunStep) =>
             delay_timer' = registers[Fetched.op.x]
       /\ (About("SetSoundTimer") /\ RunStep) =>
             sound_timer' = registers[Fetched.op.x]
       /\ (About("GetDelayTimer") /\ RunStep) =>
             registers'[Fetched.op.x] = delay_timer]_vars

\* the documented instruction table, by the fields of the word: the Operation a
\* word of a documented shape stands for, NoShape for every other word
NoShape == [kind |-> "NoShape"]

ShapeOperation(w) ==
    LET h == w \div 4096
        x == (w \div 256) % 16
        y == (w \div 16) % 16
        n == w % 16
        nn == w % 256
        nnn == w % 4096
        xy(kind) == [kind |-> kind, x |-> x, y |-> y]
        xk(kind) == [kind |-> kind, x |-> x, nn |-> nn]
        xo(kind) == [kind |-> kind, x |-> x]
        a(kind) == [kind |-> kind, nnn |-> nnn]
    IN CASE w = 224 -> [kind |-> "ClearScreen"]
         [] w = 238 -> [kind |-> "Return"]
         [] h = 1 -> a("Jump")
         [] h = 2 -> a("Call")
         [] h = 3 -> xk("SkipIfEqual")
         [] h = 4 -> xk("SkipIfNotEqual")
         [] h = 5 /\ n = 0 -> xy("SkipIfRegistersEqual")
         [] h = 6 -> xk("SetRegister")
         [] h = 7 -> xk("AddValue")
         [] h = 8 /\ n = 0 -> xy("SetToRegister")
         [] h = 8 /\ n = 1 -> xy("Or")
         [] h = 8 /\ n = 2 -> xy("And")
         [] h = 8 /\ n = 3 -> xy("Xor")
         [] h = 8 /\ n = 4 -> xy("AddRegister")
         [] h = 8 /\ n = 5 -> xy("SubRegister")
         [] h = 8 /\ n = 6 -> xy("ShiftRight")
         [] h = 8 /\ n = 7 -> xy("SubRegisterReversed")
         [] h = 8 /\ n = 14 -> xy("ShiftLeft")
         [] h = 9 /\ n = 0 -> xy("SkipIfRegistersNotEqual")
         [] h = 10 -> a("SetIndexRegister")
         [] h = 11 -> a("JumpV0")
         [] h = 12 -> xk("SetToRandom")
         [] h = 13 -> [kind |-> "Draw", x |-> x, y |-> y, n |-> n]
         [] h = 14 /\ nn = 158 -> xo("SkipIfKeyDown")
         [] h = 14 /\ nn = 161 -> xo("SkipIfKeyUp")
         [] h = 15 /\ nn = 7 -> xo("GetDelayTimer")
         [] h = 15 /\ nn = 10 -> xo("WaitForKey")
         [] h = 15 /\ nn = 21 -> xo("SetDelayTimer")
         [] h = 15 /\ nn = 24 -> xo("SetSoundTimer")
         [] h = 15 /\ nn = 30 -> xo("IncrementIndexRegister")
         [] h = 15 /\ nn = 41 -> xo("SetIndexRegisterToSprite")
         [] h = 15 /\ nn = 51 -> xo("ToDecimal")
         [] h = 15 /\ nn = 85 -> xo("WriteMemory")
         [] h = 15 /\ nn = 101 -> xo("ReadMemory")
         [] OTHER -> NoShape

\* C7: a word of a documented shape decodes to the Operation of that shape with
\* the word's fields as operands, and no word matches two arms of the decoder
C7_DecodeBuildsShape ==
    decoded # NotDecoded =>
        /\ ShapeOperation(code) # NoShape =>
               decoded = [ok |-> TRUE, op |-> ShapeOperation(code)]
        /\ Cardinality(MatchingArms(code)) <= 1

\* C7 witness: DRW VA,VB,5 decoded with its three operands
C7_Witness ==
    /\ code = W(13, 10, 11, 5)
    /\ decoded = [ok |-> TRUE, op |-> [kind |-> "Draw", x |-> 10, y |-> 11, n |-> 5]]

\* C8: a word of no documented shape decodes to the unrecognized-opcode error
\* carrying that word, never to an Operation
C8_DecodeRejectsOthers ==
    (decoded # NotDecoded /\ ShapeOperation(code) = NoShape) =>
        decoded = [ok |-> FALSE, err |-> [kind |-> "UnknownOpCode", code |-> code]]

\* C8 witness: 5121 has the high nibble of SE Vx,Vy but a low nibble that is not 0
C8_Witness ==
    /\ code = W(5, 1, 2, 1)
    /\ decoded = [ok |-> FALSE, err |-> [kind |-> "UnknownOpCode", code |-> W(5, 1, 2, 1)]]

\* C9 as stated: ADD Vx,Vy leaves Vx = (a + b) mod 256 and VF = 1 if
\* a + b >= 256, else 0, for all register indices x and y
C9_AddAllRegisters ==
    [][(About("AddRegister") /\ RunStep) =>
         LET a == registers[Fetched.op.x]
             b == registers[Fetched.op.y]
         IN /\ registers'[Fetched.op.x] = (a + b) % 256
            /\ registers'[VF] = IF a + b >= 256 THEN 1 ELSE 0]_vars

\* C9 amended: ADD Vx,Vy leaves VF = 1 if a + b >= 256, else 0, for all x and y,
\* and leaves Vx = (a + b) mod 256 for every x other than the flag register
C9_AddFlagLast ==
    [][(About("AddRegister") /\ RunStep) =>
         LET a == registers[Fetched.op.x]
             b == registers[Fetched.op.y]
         IN /\ result' = Ok
            /\ registers'[VF] = IF a + b >= 256 THEN 1 ELSE 0
            /\ Fetched.op.x # VF => registers'[Fetched.op.x] = (a + b) % 256]_vars

\* C9 witness: ADD VF,V1 has run on VF = 255 and V1 = 1, and VF holds the carry
C9_Witness ==
    /\ lastOp = [kind |-> "AddRegister", x |-> VF, y |-> 1]
    /\ result = Ok
    /\ pc = ENTRY + 6
    /\ extract_opcode = 0
    /\ registers[1] = 1
    /\ registers[VF] = 1

\* C10 as stated: SUB Vx,Vy stores (a - b) mod 256 in Vx and sets VF = 1 iff
\* a >= b; SUBN Vx,Vy stores (b - a) mod 256 in Vx and sets VF = 1 iff b >= a
C10_SubAllRegisters ==
    [][/\ (About("SubRegister") /\ RunStep) =>
             LET a == registers[Fetched.op.x]
                 b == registers[Fetched.op.y]
             IN /\ registers'[Fetched.op.x] = (a - b + 256) % 256
                /\ registers'[VF] = IF a >= b THEN 1 ELSE 0
       /\ (About("SubRegisterReversed") /\ RunStep) =>
             LET a == registers[Fetched.op.x]
                 b == registers[Fetched.op.y]
             IN /\ registers'[Fetched.op.x] = (b - a + 256) % 256
                /\ registers'[VF] = IF b >= a THEN 1 ELSE 0]_vars

\* C10 amended: SUB Vx,Vy sets VF = 1 iff a >= b and SUBN Vx,Vy sets VF = 1 iff
\* b >= a, else 0, for all x and y; for every x other than the flag register
\* SUB stores (a - b) mod 256 and SUBN stores (b - a) mod 256 in Vx
C10_SubFlagLast ==
    [][/\ (About("SubRegister") /\ RunStep) =>
             LET a == registers[Fetched.op.x]
                 b == registers[Fetched.op.y]
             IN /\ result' = Ok
                /\ registers'[VF] = IF a >= b THEN 1 ELSE 0
                /\ Fetched.op.x # VF => registers'[Fetched.op.x] = (a - b + 256) % 256
       /\ (About("SubRegisterReversed") /\ RunStep) =>
             LET a == registers[Fetched.op.x]
                 b == registers[Fetched.op.y]
             IN /\ result' = Ok
                /\ registers'[VF] = IF b >= a THEN 1 ELSE 0
                /\ Fetched.op.x # VF => registers'[Fetched.op.x] = (b - a + 256) % 256]_vars

\* C10 witness: SUB V0,V1 has run on V0 = 0 and V1 = 1: a borrow, V0 = 255, VF = 0
C10_Witness ==
    /\ lastOp = [kind |-> "SubRegister", x |-> 0, y |-> 1]
    /\ result = Ok
    /\ pc = ENTRY + 6
    /\ extract_opcode = 0
    /\ registers[0] = 255
    /\ registers[1] = 1
    /\ registers[VF] = 0

\* C11 as stated: SHR Vx,Vy and SHL Vx,Vy leave Vx = the original Vy shifted by
\* one bit (mod 256) and VF = the bit shifted out of the original Vy, for all
\* register indices x and y
C11_ShiftAllRegisters ==
    [][/\ (About("ShiftRight") /\ RunStep) =>
             LET b == registers[Fetched.op.y]
             IN /\ registers'[Fetched.op.x] = b \div 2
                /\ registers'[VF] = b % 2
       /\ (About("ShiftLeft") /\ RunStep) =>
             LET b == registers[Fetched.op.y]
             IN /\ registers'[Fetched.op.x] = (b * 2) % 256
                /\ registers'[VF] = b \div 128]_vars

\* C11 amended: SHR Vx,Vy and SHL Vx,Vy leave VF = the bit shifted out of the
\* original Vy (bit 0 for SHR, bit 7 for SHL) for all x and y, the case x = y
\* included, and leave Vx = the original Vy shifted by one bit (mod 256) for
\* every x other than the flag register; no other register changes
C11_ShiftFlagLast ==
    [][/\ (About("ShiftRight") /\ RunStep) =>
             LET b == registers[Fetched.op.y]
                 x == Fetched.op.x
             IN /\ result' = Ok
                /\ registers'[VF] = b % 2
                /\ x # VF => registers'[x] = b \div 2
                /\ \A r \in 0..(REG_SIZE - 1) \ {x, VF} : registers'[r] = registers[r]
       /\ (About("ShiftLeft") /\ RunStep) =>
             LET b == registers[Fetched.op.y]
                 x == Fetched.op.x
             IN /\ result' = Ok
                /\ registers'[VF] = b \div 128
                /\ x # VF => registers'[x] = (b * 2) % 256
                /\ \A r \in 0..(REG_SIZE - 1) \ {x, VF} : registers'[r] = registers[r]]_vars

\* C11 witness: SHR V1,V1 has run on V1 = 1: V1 = 0 and VF = 1, the bit of the
\* value V1 held before it was overwritten
C11_Witness ==
    /\ lastOp = [kind |-> "ShiftRight", x |-> 1, y |-> 1]
    /\ result = Ok
    /\ pc = ENTRY + 6
    /\ extract_opcode = 0
    /\ registers[1] = 0
    /\ registers[VF] = 1

\* C12: RET executed with an empty call stack returns the stack-underflow error
\* and changes neither the program counter nor the stack pointer
C12_RetUnderflows ==
    [][(About("Return") /\ RunStep /\ sp = 0) =>
         /\ result' = StackUnderflow
         /\ pc' = pc
         /\ sp' = sp
         /\ call_stack' = call_stack]_vars

\* C12 witness: the RET at the entry point has underflowed with no CALL made
\* before it: the call stack was never written
C12_Witness ==
    /\ lastOp.kind = "Return"
    /\ result = StackUnderflow
    /\ pc = ENTRY
    /\ sp = 0
    /\ \A k \in 0..(STACK_SIZE - 1) : call_stack[k] = 0

\* memory holds the image of n nested CALLs, 1 <= n <= STACK_SIZE, which no
\* instruction of these images writes
CallImageMemories == {LoadIntoMemory(CallWords(n)) : n \in 1..STACK_SIZE}
IsCallImage == memory \in CallImageMemories

\* C13: the call stack is a LIFO of return addresses: a CALL at p with fewer than
\* 16 entries pushes p + 2 on top, a RET on a nonempty stack pops the top into
\* the program counter and leaves the entries below, and nothing else touches
\* the stack; so the RETs after n <= 16 nested CALLs at p1..pn go to pn + 2,
\* ..., p1 + 2 in that order and bring the stack pointer back to 0
C13_CallsReturnLifo ==
    [][/\ (About("Call") /\ RunStep /\ sp < STACK_SIZE) =>
             /\ call_stack' = [call_stack EXCEPT ![sp] = pc + 2]
             /\ sp' = sp + 1
       /\ (About("Return") /\ RunStep /\ sp > 0) =>
             /\ result' = Ok
             /\ pc' = call_stack[sp - 1]
             /\ sp' = sp - 1
             /\ call_stack' = call_stack
       /\ ~((About("Call") \/ About("Return")) /\ RunStep) =>
             /\ sp' = sp
             /\ call_stack' = call_stack
       /\ IsCallImage =>
             /\ \A k \in 0..(sp - 1) : call_stack[k] = ENTRY + 4 * k + 2
             /\ (About("Return") /\ RunStep /\ sp > 0) =>
                    pc' = ENTRY + 4 * (sp - 1) + 2]_vars

\* C13 witness: 16 nested CALLs have been returned from: the last RET went to
\* p1 + 2, the stack pointer is 0 and the 16th slot still holds p16 + 2
C13_Witness ==
    /\ lastOp.kind = "Return"
    /\ result = Ok
    /\ pc = ENTRY + 2
    /\ sp = 0
    /\ call_stack[STACK_SIZE - 1] = ENTRY + 4 * (STACK_SIZE - 1) + 2

\* memory holds an image that draws one sprite twice at one coordinate
DrawImageMemories == {LoadIntoMemory(w) : w \in DrawImages}
IsDrawImage == memory \in DrawImageMemories

\* the sprite at memory[I .. I + n] has a set bit in row dy, column dx
SpriteBit(dx, dy, n) ==
    /\ dx \in 0..7
    /\ dy \in 0..(n - 1)
    /\ (Mem(index_register + dy) \div (2 ^ (7 - dx))) % 2 = 1

\* the sprite drawn from the origin (px mod 64, py mod 32) covers pixel <<X, Y>>
\* with a set bit
SpriteCovers(X, Y, px, py, n) ==
    SpriteBit(X - (px % 64), Y - (py % 32), n)

\* C19 as stated: of two draws of the same sprite at the same coordinate on a
\* cleared screen, the first reports no collision (VF = 0), the second reports a
\* collision (VF = 1) and leaves every pixel off, for every sprite and coordinate
C19_DrawTwiceCollides ==
    [][(About("Draw") /\ RunStep /\ IsDrawImage) =>
         /\ pc = ENTRY + 6 => registers'[VF] = 0
         /\ pc = ENTRY + 8 => (frame_buffer' = {} /\ registers'[VF] = 1)]_vars

\* C19 amended: of two draws of the same sprite at the same coordinate on a
\* cleared screen, the first reports no collision and the second leaves every
\* pixel off; the second reports a collision (VF = 1) iff the sprite has a set
\* bit that lands inside the screen from the wrapped origin, else VF = 0
C19_DrawTwiceClears ==
    [][(About("Draw") /\ RunStep /\ IsDrawImage) =>
         LET n == Fetched.op.n
             px == registers[Fetched.op.x]
             py == registers[Fetched.op.y]
             visible == \E X \in 0..63, Y \in 0..31 : SpriteCovers(X, Y, px, py, n)
         IN /\ result' = Ok
            /\ pc = ENTRY + 6 =>
                   /\ frame_buffer = {}
                   /\ registers'[VF] = 0
                   /\ (frame_buffer' # {}) = visible
            /\ pc = ENTRY + 8 =>
                   /\ frame_buffer' = {}
                   /\ registers'[VF] = IF visible THEN 1 ELSE 0]_vars

\* C19 witness: the two-row sprite has been drawn twice at (57, 31): the screen
\* is clear again and the second draw reported the collision
C19_Witness ==
    /\ IsDrawImage
    /\ lastOp = [kind |-> "Draw", x |-> 0, y |-> 1, n |-> 2]
    /\ pc = ENTRY + 10
    /\ registers[0] = 57
    /\ registers[1] = 31
    /\ frame_buffer = {}
    /\ registers[VF] = 1

\* C20: DRW Vx,Vy,n toggles exactly the screen pixels that a set sprite bit
\* covers from the origin (Vx mod 64, Vy mod 32), so only Vx mod 64 and
\* Vy mod 32 matter and a draw at (64, 0) is a draw at (0, 0); bits past the
\* right or bottom edge toggle nothing; VF is 1 iff a pixel that was on was
\* turned off, else 0
C20_DrawWrapsOriginAndClips ==
    [][(About("Draw") /\ RunStep /\ index_register + Fetched.op.n <= MEM_SIZE) =>
         LET n == Fetched.op.n
             px == registers[Fetched.op.x]
             py == registers[Fetched.op.y]
         IN /\ result' = Ok
            /\ \A X \in 0..63, Y \in 0..31 :
                   (<<X, Y>> \in frame_buffer') =
                       ((<<X, Y>> \in frame_buffer) # SpriteCovers(X, Y, px, py, n))
            /\ \A p \in frame_buffer' : p[1] \in 0..63 /\ p[2] \in 0..31
            /\ registers'[VF] = IF frame_buffer \ frame_buffer' # {} THEN 1 ELSE 0]_vars

\* C20 witness: the full two-row sprite has been drawn once from (64, 32), which
\* is the origin (0, 0): the pixels lit are those of a draw at (0, 0)
C20_Witness ==
    /\ IsDrawImage
    /\ lastOp.kind = "Draw"
    /\ pc = ENTRY + 8
    /\ registers[0] = 64
    /\ registers[1] = 32
    /\ registers[VF] = 0
    /\ frame_buffer = {<<X, 0>> : X \in 0..7} \cup {<<0, 1>>, <<7, 1>>}

\* C14: split-invariance of the scheduler. The owner gives D as two calls d1 and
\* D - d1 while the interpreter built alike (whole) is given D in one call; as
\* long as no call fails, every iteration of the split run is an iteration of
\* the whole run in which the same countdowns run out, so the same timer ticks
\* and the same instruction are made on the same state, and when the last call
\* of the split run returns the whole run returns too, with the same three
\* countdown remainders
C14_SplitInvariant ==
    [][at = "loop" =>
         LET m == MinOfCountdowns(Now)
             w == MinOfCountdowns(whole)
         IN IF m > duration
            THEN calls = <<>> =>
                     /\ w > whole.duration
                     /\ operation_duration' = whole'.operation_duration
                     /\ delay_tick_duration' = whole'.delay_tick_duration
                     /\ sound_tick_duration' = whole'.sound_tick_duration
            ELSE /\ w <= whole.duration
                 /\ (w = whole.delay_tick_duration) = (m = delay_tick_duration)
                 /\ (w = whole.sound_tick_duration) = (m = sound_tick_duration)
                 /\ (w = whole.operation_duration) = (m = operation_duration)
                 /\ whole.duration - w = duration - m + SumOf(calls)]_vars

\* C14 witness: the first call of a split has returned and the second has run
\* one instruction of the timer loop with 18 ms left to go, the countdowns of
\* the split run and of the whole run being the same
C14_Witness ==
    /\ at = "loop"
    /\ calls = <<>>
    /\ advanced = Ok
    /\ result = Ok
    /\ pc = ENTRY + 2
    /\ registers[5] = 9
    /\ duration = 18000000
    /\ whole.duration = 18000000
    /\ whole.operation_duration = operation_duration
    /\ whole.delay_tick_duration = delay_tick_duration

\* C15: a countdown that reaches zero during simulate_duration is reset to the
\* period new_with_durations was given for it
C15_ResetToConfiguredPeriod ==
    [][/\ (at = "loop" /\ MinOfCountdowns(Now) <= duration) =>
             /\ MinOfCountdowns(Now) = delay_tick_duration =>
                    delay_tick_duration' = configured.delay_tick
             /\ MinOfCountdowns(Now) = sound_tick_duration =>
                    sound_tick_duration' = configured.sound_tick
       /\ (at = "ran" /\ result = Ok) =>
             operation_duration' = configured.operation]_vars

\* C16: in an iteration of simulate_duration the delay timer is decremented
\* (staying at 0) exactly when the delay countdown is the one that reaches
\* zero, and the sound timer exactly when the sound countdown does
C16_TimersTickIndependently ==
    [][(at = "loop" /\ MinOfCountdowns(Now) <= duration) =>
         /\ delay_timer' = IF MinOfCountdowns(Now) = delay_tick_duration
                           THEN decremented(delay_timer) ELSE delay_timer
         /\ sound_timer' = IF MinOfCountdowns(Now) = sound_tick_duration
                           THEN decremented(sound_timer) ELSE sound_timer]_vars

\* C17: every call of simulate_duration returns
C17_AdvanceTerminates == (at = "loop") ~> (at = "idle")

\* C18: when the instruction run inside simulate_duration returns an error, the
\* call returns that error in its next step, with no instruction run and no
\* timer decremented after it
C18_ErrorEndsAdvance ==
    [][(at = "ran" /\ result.kind \notin {"Ok", "Panicked"}) =>
         /\ at' = "idle"
         /\ advanced' = result
         /\ UNCHANGED <<cpu, platform, result>>]_vars

\* C18 witness: simulate_duration has returned Crashed from the third
\* instruction with most of its duration not yet consumed
C18_Witness ==
    /\ at = "idle"
    /\ advanced = Crashed
    /\ result = Crashed
    /\ pc = ENTRY + 4
    /\ registers[0] = 2
    /\ duration >= 10000000

----------------------------------------------------------------------------
(* Program counter stepping, logic instructions, block transfers *)

\* the variant run_next_instruction is about to dispatch to
Kind == Fetched.op.kind

\* the condition of the skip instruction about to run holds
SkipConditionHolds ==
    LET op == Fetched.op
    IN \/ Kind = "SkipIfEqual" /\ registers[op.x] = op.nn
       \/ Kind = "SkipIfNotEqual" /\ registers[op.x] # op.nn
       \/ Kind = "SkipIfRegistersEqual" /\ registers[op.x] = registers[op.y]
       \/ Kind = "SkipIfRegistersNotEqual" /\ registers[op.x] # registers[op.y]
       \/ Kind = "SkipIfKeyDown" /\ registers[op.x] < KEYPAD_SIZE
             /\ keypad[registers[op.x]] = "Pressed"
       \/ Kind = "SkipIfKeyUp" /\ registers[op.x] < KEYPAD_SIZE
             /\ keypad[registers[op.x]] # "Pressed"

\* C21: every instruction that returns Ok, other than JP, JP V0, CALL, RET and
\* a LD Vx,K that waits, moves the program counter by +2, or by +4 when it is
\* a skip instruction whose condition holds; CLS leaves the frame buffer
\* all-off, and ADD Vx,nn leaves Vx + nn mod 256 in Vx
C21_PcSteps ==
    [][(/\ Alive /\ FetchInBounds /\ Fetched.ok /\ RunStep
        /\ result' = Ok
        /\ lastOp' = Fetched.op
        /\ Kind \notin {"Jump", "JumpV0", "Call", "Return"}
        /\ ~(Kind = "WaitForKey" /\ KeysDown = {})) =>
         /\ pc' = IF SkipConditionHolds THEN pc + 4 ELSE pc + 2
         /\ Kind = "ClearScreen" => frame_buffer' = {}
         /\ Kind = "AddValue" =>
               registers'[Fetched.op.x] = (registers[Fetched.op.x] + Fetched.op.nn) % 256]_vars

\* C21 witness: 6A02 and 7A05 have run, VA = 7 and the program counter is two
\* instructions past the entry point
C21_Witness ==
    /\ lastOp = [kind |-> "AddValue", x |-> 10, nn |-> 5]
    /\ result = Ok
    /\ registers[10] = 7
    /\ pc = ENTRY + 4

\* bit i of the byte v
BitOf(v, i) == (v \div (2 ^ i)) % 2

\* r is the byte whose bits are those of a and b combined by OR, AND or XOR
IsCombination(kind, r, a, b) ==
    /\ r \in 0..(U8 - 1)
    /\ \A i \in 0..7 :
          BitOf(r, i) = CASE kind = "Or" -> IF BitOf(a, i) + BitOf(b, i) >= 1 THEN 1 ELSE 0
                          [] kind = "And" -> BitOf(a, i) * BitOf(b, i)
                          [] kind = "Xor" -> (BitOf(a, i) + BitOf(b, i)) % 2

\* the instruction about to run is OR, AND or XOR
AboutLogic ==
    /\ Alive /\ FetchInBounds /\ Fetched.ok /\ RunStep
    /\ Kind \in {"Or", "And", "Xor"}

\* C22 as stated: OR, AND and XOR leave the bitwise combination of Vx and Vy in
\* Vx and 0 in VF, for all register indices x and y
C22_LogicAllRegisters ==
    [][AboutLogic =>
         /\ IsCombination(Kind, registers'[Fetched.op.x],
                          registers[Fetched.op.x], registers[Fetched.op.y])
         /\ registers'[VF] = 0]_vars

\* C22 amended: OR, AND and XOR leave 0 in VF for all x and y, whatever VF held,
\* leave the bitwise combination of Vx and Vy in Vx for every x other than the
\* flag register, and change no other register
C22_LogicFlagLast ==
    [][AboutLogic =>
         /\ result' = Ok
         /\ registers'[VF] = 0
         /\ Fetched.op.x # VF =>
               IsCombination(Kind, registers'[Fetched.op.x],
                             registers[Fetched.op.x], registers[Fetched.op.y])
         /\ \A i \in 0..(REG_SIZE - 1) :
               i \notin {Fetched.op.x, VF} => registers'[i] = registers[i]]_vars

\* C22 witness: XOR V1,VF has run on V1 = 1 and VF = 255: V1 = 254 and the flag
\* register, nonzero before, is 0
C22_Witness ==
    /\ lastOp = [kind |-> "Xor", x |-> 1, y |-> VF]
    /\ result = Ok
    /\ pc = ENTRY + 6
    /\ Mem(ENTRY) * 256 + Mem(ENTRY + 1) = Wxnn(6, 1, 1)
    /\ Mem(ENTRY + 2) * 256 + Mem(ENTRY + 3) = Wxnn(6, VF, 255)
    /\ registers[1] = 254
    /\ registers[VF] = 0

\* memory[a] after the step
MemNext(a) == IF a \in DOMAIN memory' THEN memory'[a] ELSE 0

\* the memory cells outside I .. I + x are what they were
OtherCellsKept(x) ==
    \A a \in DOMAIN memory \cup DOMAIN memory' :
        a \notin index_register..(index_register + x) => MemNext(a) = Mem(a)

\* C23: LD [I],Vx copies V0..Vx into the memory cells I..I+x and LD Vx,[I]
\* copies the memory cells I..I+x into V0..Vx, in index order, no other register
\* or memory cell changes, and each then adds x + 1 to the index register
C23_BlockTransfer ==
    [][/\ (About("WriteMemory") /\ RunStep) =>
             LET x == Fetched.op.x
             IN /\ \A i \in 0..x : MemNext(index_register + i) = registers[i]
                /\ OtherCellsKept(x)
                /\ registers' = registers
                /\ index_register' = index_register + x + 1
       /\ (About("ReadMemory") /\ RunStep) =>
             LET x == Fetched.op.x
             IN /\ \A i \in 0..x : registers'[i] = Mem(index_register + i)
                /\ \A i \in (x + 1)..(REG_SIZE - 1) : registers'[i] = registers[i]
                /\ memory' = memory
                /\ index_register' = index_register + x + 1]_vars

\* the same for transfers whose cells I..I+x are all inside memory
C23_BlockTransferInsideMemory ==
    [][/\ (About("WriteMemory") /\ RunStep /\ index_register + Fetched.op.x < MEM_SIZE) =>
             LET x == Fetched.op.x
             IN /\ \A i \in 0..x : MemNext(index_register + i) = registers[i]
                /\ OtherCellsKept(x)
                /\ registers' = registers
                /\ index_register' = index_register + x + 1
                /\ result' = Ok
       /\ (About("ReadMemory") /\ RunStep /\ index_register + Fetched.op.x < MEM_SIZE) =>
             LET x == Fetched.op.x
             IN /\ \A i \in 0..x : registers'[i] = Mem(index_register + i)
                /\ \A i \in (x + 1)..(REG_SIZE - 1) : registers'[i] = registers[i]
                /\ memory' = memory
                /\ index_register' = index_register + x + 1
                /\ result' = Ok]_vars

----------------------------------------------------------------------------
(* Errors and the ranges of indices *)

\* the kinds of Err run_next_instruction has a value for
ErrorKinds == {"Crashed", "StackOverflow", "StackUnderflow", "InvalidKey"}

\* C27: when run_next_instruction returns an error, the program counter, the
\* registers, the index register, the stack pointer, the call stack and memory
\* are what they were before the call, and the instruction at the program
\* counter is the one that failed
C27_ErrorLeavesCpu ==
    [][(Alive /\ RunStep /\ at = "idle" /\ result'.kind \in ErrorKinds) =>
         /\ UNCHANGED cpu
         /\ extract_opcode' = extract_opcode]_vars

\* C27 witness: the word after three executed instructions does not decode; the
\* error is returned with the program counter on that word and the registers
\* as the instructions left them
C27_Witness ==
    /\ result = Crashed
    /\ pc = ENTRY + 6
    /\ extract_opcode = 0
    /\ lastOp = [kind |-> "SetToRegister", x |-> 0, y |-> 1]
    /\ registers[0] = 255
    /\ registers[1] = 255

\* the memory and call-stack indices the handler of the decoded operation uses
\* are inside the arrays (a register index is a nibble, below REG_SIZE)
HandlerInRange ==
    LET op == Fetched.op
    IN /\ Kind = "Draw" => index_register + op.n <= MEM_SIZE
       /\ Kind = "ToDecimal" => index_register + 2 < MEM_SIZE
       /\ Kind \in {"ReadMemory", "WriteMemory"} => index_register + op.x < MEM_SIZE
       /\ Kind = "Call" => sp < STACK_SIZE
       /\ Kind = "Return" => sp <= STACK_SIZE

\* C28: in every state reached by executing instructions from a loaded image,
\* the next run_next_instruction indexes memory and the call stack inside the
\* arrays: the fetch at pc and pc + 1, the sprite rows at I..I+n, the digits
\* at I..I+2, the block transfers at I..I+x and the stack slot of CALL and RET
C28_AccessesInRange ==
    Alive =>
        /\ FetchInBounds
        /\ Fetched.ok => HandlerInRange

\* C29: the index register lies in [0, 4096) in every reachable state
C29_IndexRegisterIs12Bit ==
    index_register \in 0..(MEM_SIZE - 1)

\* C30: the program counter is even in every state reached by executing
\* instructions from an image whose entry point is even
C30_PcEven ==
    ENTRY % 2 = 0 => pc % 2 = 0

----------------------------------------------------------------------------
(* The agents of the trust crate *)

\* the action side played in round n, and the one its opponent played
PlayOf(side, n) == IF side = "left" THEN played[n].left ELSE played[n].right
OpponentOf(side, n) == IF side = "left" THEN played[n].right ELSE played[n].left
AgentOf(side) == IF side = "left" THEN left ELSE right

\* C24: a CopycatAgent cooperates in its first round and in every later round n
\* plays the action its opponent played in round n - 1, as the left and as the
\* right player
C24_CopycatRepeatsOpponent ==
    \A side \in {"left", "right"} :
        AgentOf(side).kind = "CopycatAgent" =>
            \A n \in 1..Len(played) :
                PlayOf(side, n) = IF n = 1 THEN Cooperate ELSE OpponentOf(side, n - 1)

\* the same for the left player alone
C24_LeftCopycatRepeatsOpponent ==
    left.kind = "CopycatAgent" =>
        \A n \in 1..Len(played) :
            PlayOf("left", n) = IF n = 1 THEN Cooperate ELSE OpponentOf("left", n - 1)

----------------------------------------------------------------------------
(* Percolation *)

\* the cells of the grid g that are vacant
Vacant(g) ==
    {c \in (0..(g.width - 1)) \X (0..(g.height - 1)) : ~g.data[c[1]][c[2]]}

\* two cells are 4-neighbours
Adjacent(c, d) ==
    \/ c[1] = d[1] /\ (c[2] = d[2] + 1 \/ d[2] = c[2] + 1)
    \/ c[2] = d[2] /\ (c[1] = d[1] + 1 \/ d[1] = c[1] + 1)

\* the vacant cells joined to a cell of S by a path of vacant cells
RECURSIVE Joined(_, _)
Joined(g, S) ==
    LET more == {d \in Vacant(g) : \E c \in S : Adjacent(c, d)}
    IN IF more \subseteq S THEN S ELSE Joined(g, S \cup more)

\* there is a path of vacant cells from a cell with y = 0 to a cell with
\* y = height - 1
PathExists(g) ==
    \E c \in Joined(g, {d \in Vacant(g) : d[2] = 0}) : c[2] = g.height - 1

\* C26: percolates(grid) is true iff the grid is empty (width = 0 or
\* height = 0) or a path of vacant cells between 4-neighbours leads from a
\* cell with y = 0 to a cell with y = height - 1, and false otherwise
C26_PercolatesIffPath ==
    percolated.called =>
        (percolated.value <=> (grid.width = 0 \/ grid.height = 0 \/ PathExists(grid)))

\* C26 witness: percolates returned true on a 3 x 3 grid none of whose columns
\* is vacant throughout, so that the path has to turn sideways
C26_Witness ==
    /\ percolated.called
    /\ percolated.value
    /\ grid.width = 3
    /\ grid.height = 3
    /\ \A x \in 0..2 : \E y \in 0..2 : grid.data[x][y]

----------------------------------------------------------------------------
(* The stack pointer *)

\* the step is a CALL, or a RET, that returns Ok
CallDone == About("Call") /\ RunStep /\ result' = Ok
RetDone == About("Return") /\ RunStep /\ result' = Ok

\* the call-stack entries below n are what they were
EntriesKeptBelow(n) == \A k \in 0..(n - 1) : call_stack'[k] = call_stack[k]

\* C31: the stack pointer is 0 at construction and stays in [0, 16]; a CALL
\* that succeeds adds 1 to it and puts its return address on top of the
\* entries below, a RET that succeeds takes 1 off it and returns to the top
\* entry, and no other step changes it or the entries below it: so it counts
\* the CALLs not yet matched by a RET, whose return addresses are the entries
\* below it, in call order
C31_StackPointerCountsCalls ==
    [][/\ sp \in 0..STACK_SIZE
       /\ sp' \in 0..STACK_SIZE
       /\ CallDone =>
             /\ sp' = sp + 1
             /\ call_stack'[sp] = pc + 2
             /\ EntriesKeptBelow(sp)
       /\ RetDone =>
             /\ sp' = sp - 1
             /\ pc' = call_stack[sp - 1]
             /\ EntriesKeptBelow(sp - 1)
       /\ ~(CallDone \/ RetDone) =>
             /\ sp' = sp
             /\ EntriesKeptBelow(sp)]_vars

\* C31 witness: 16 CALLs are unmatched, the stack pointer is 16 and the
\* entries are their return addresses in call order
C31_Witness ==
    /\ lastOp.kind = "Call"
    /\ result = Ok
    /\ sp = STACK_SIZE
    /\ \A k \in 0..(STACK_SIZE - 1) : call_stack[k] = ENTRY + 4 * k + 2

----------------------------------------------------------------------------
(* The countdowns between calls of simulate_duration *)

\* a call of simulate_duration has returned
Returned == at = "idle" /\ advanced.kind # "NotRun"

\* C32: whenever simulate_duration has returned, each of the three countdowns
\* holds a remainder between 0 and the period new_with_durations was given
\* for it
C32_RemaindersWithinPeriods ==
    Returned =>
        /\ operation_duration \in 0..configured.operation
        /\ delay_tick_duration \in 0..configured.delay_tick
        /\ sound_tick_duration \in 0..configured.sound_tick

\* the scheduler was built with the default cadences
DefaultCadences ==
    configured = [operation |-> DEFAULT_OPERATION_DURATION,
                  delay_tick |-> DEFAULT_DELAY_TICK_DURATION,
                  sound_tick |-> DEFAULT_SOUND_TICK_DURATION]

\* C33: with the default cadences and a program that raises no error, whenever
\* simulate_duration has returned and the durations of the calls made sum to
\* T, floor(T / 2 ms) instructions have been executed and each timer has been
\* decremented (or found at 0) floor(T / 16,666,667 ns) times
C33_DefaultCadenceCounts ==
    (DefaultCadences /\ Returned /\ advanced = Ok /\ result.kind \in {"Ok", "NotRun"}) =>
        /\ tally.instructions = tally.requested \div 2000000
        /\ tally.delay_attempts = tally.requested \div 16666667
        /\ tally.sound_attempts = tally.requested \div 16666667

\* C33 witness: two calls summing to 20 ms have returned, 10 instructions have
\* run and the delay timer, set to 9 by the third of them, has ticked once
C33_Witness ==
    /\ DefaultCadences
    /\ Returned
    /\ advanced = Ok
    /\ calls = <<>>
    /\ tally = [requested |-> 20000000, instructions |-> 10, delay_attempts |-> 1,
                sound_attempts |-> 1]
    /\ delay_timer = 8
    /\ delay_tick_duration < DEFAULT_DELAY_TICK_DURATION

----------------------------------------------------------------------------
(* The two sides of a game *)

\* the game Game::new(l, r) after n calls of play_round
RECURSIVE GameAfter(_, _, _)
GameAfter(l, r, n) ==
    IF n = 0 THEN [left |-> NewAgent(l), right |-> NewAgent(r), played |-> <<>>]
    ELSE LET before == GameAfter(l, r, n - 1)
             g == Round(before.left, before.right)
         IN [left |-> g.left, right |-> g.right,
             played |-> Append(before.played, g.round)]

\* a RoundOutcome seen from the other side
Mirrored(outcome) ==
    CASE outcome = "LeftCheated" -> "RightCheated"
      [] outcome = "RightCheated" -> "LeftCheated"
      [] OTHER -> outcome

\* C34: Game::new(A, B) and Game::new(B, A) give, round by round, mirrored
\* outcomes and the actions of the two agents exchanged, and after every round
\* the scores exchanged
C34_SidesAlike ==
    LET other == GameAfter(right.kind, left.kind, Len(played))
    IN /\ \A n \in 1..Len(played) :
             /\ other.played[n].outcome = Mirrored(played[n].outcome)
             /\ other.played[n].left = played[n].right
             /\ other.played[n].right = played[n].left
       /\ other.left.score = right.score
       /\ other.right.score = left.score

\* C35: in every interleaving of send, recv, Sender clone, Sender drop and
\* Receiver close, recv returns the oldest message taken by send and not yet
\* received while there is one, also after the channel is closed; with none
\* left it returns Closed if close was called or every Sender is dropped, and
\* Empty otherwise
C35_RecvFifoClosedEmpty ==
    [][channel'.recvs = channel.recvs + 1 =>
         LET r == channel'.received
         IN IF Len(channel.accepted) > channel.delivered
            THEN r = [kind |-> "Ok", value |-> channel.accepted[channel.delivered + 1]]
            ELSE IF channel.closed \/ channel.senders = 0
                 THEN r = [kind |-> "Closed"]
                 ELSE r = [kind |-> "Empty"]]_vars

\* the second message is received after the last Sender was dropped, a third waiting
C35_Witness ==
    /\ channel.senders = 0
    /\ inner.state = "Closed"
    /\ channel.received = [kind |-> "Ok", value |-> 2]
    /\ inner.buffer = <<3>>

\* the addresses a set of addresses leads to in one step through the fields
\* of the objects of a
FieldsOf(a, from) ==
    {x \in 1..MaxObjects : \E i \in 1..Len(a) :
         a[i].addr \in from /\ x \in {a[i].first, a[i].second}}

RECURSIVE ReachableFrom(_, _)
ReachableFrom(a, from) ==
    IF FieldsOf(a, from) \subseteq from THEN from
    ELSE ReachableFrom(a, from \cup FieldsOf(a, from))

\* the allocations reachable from a Gc handle held outside the arena
Reachable(a, o) == ReachableFrom(a, {a[i].addr : i \in {k \in 1..Len(a) : o[a[k].addr] > 0}})

\* C36: after Arena::sweep an allocation remains in the arena iff it is
\* reachable from a Gc handle held outside the arena through the Gc
\* references in the fields of allocated objects, and allocation_count is the
\* number of reachable allocations
C36_SweepKeepsReachable ==
    [][swept' = swept + 1 =>
         /\ {arena'[i].addr : i \in 1..Len(arena')} = Reachable(arena, owned)
         /\ allocation_count' = Cardinality(Reachable(arena, owned))]_vars

\* C37: within one transaction the state Removed is absorbing: after
\* Tx::delete on an object every later Transaction::get of its type and id
\* returns NotFound with that id and type name and reads no storage, and no
\* operation moves the object back to Clean or Modified
C37_RemovedAbsorbing ==
    [][\A key \in DOMAIN cache :
           cache[key].state = "Removed" =>
               /\ key \in DOMAIN cache'
               /\ cache'[key].state = "Removed"
               /\ (reply'.op = "get" /\ reply'.type = key[1] /\ reply'.id = key[2]) =>
                      /\ reply'.kind = "NotFound"
                      /\ reply'.object_id = key[2]
                      /\ reply'.type_name = key[1]
                      /\ storage'.issued = <<>>]_vars

\* get has answered NotFound for an object deleted in this transaction whose
\* row is still in storage
C37_Witness ==
    /\ reply.kind = "NotFound"
    /\ <<reply.type, reply.id>> \in DOMAIN cache
    /\ cache[<<reply.type, reply.id>>].state = "Removed"
    /\ <<reply.type, reply.id>> \in storage.rows
    /\ storage.issued = <<>>

\* the storage calls of one kind the last operation made for a node
CallsFor(issued, name, key) ==
    {i \in 1..Len(issued) :
         issued[i].call = name /\ issued[i].type = key[1] /\ issued[i].id = key[2]}

\* C38: Transaction::commit issues exactly one update_row for each cached
\* object that is Modified, exactly one delete_row for each that is Removed
\* and no storage write for a Clean one, and issues the storage commit only
\* after all of these succeeded; if one of them fails its error is returned
\* and the storage commit is not issued
C38_CommitWritesThenCommits ==
    [][reply'.op = "commit" /\ storage.ended = "No" =>
         LET issued == storage'.issued
             updates(key) == Cardinality(CallsFor(issued, "update_row", key))
             deletes(key) == Cardinality(CallsFor(issued, "delete_row", key))
             commits == {i \in 1..Len(issued) : issued[i].call = "commit"}
             complete == \A key \in DOMAIN cache :
                             /\ updates(key) = (IF cache[key].state = "Modified" THEN 1 ELSE 0)
                             /\ deletes(key) = (IF cache[key].state = "Removed" THEN 1 ELSE 0)
         IN /\ \A key \in DOMAIN cache :
                   /\ updates(key) <= (IF cache[key].state = "Modified" THEN 1 ELSE 0)
                   /\ deletes(key) <= (IF cache[key].state = "Removed" THEN 1 ELSE 0)
            /\ \A i \in commits :
                   /\ i = Len(issued)
                   /\ \A j \in 1..(i - 1) : issued[j].ok
                   /\ complete
            /\ reply'.kind = "Ok" => complete /\ commits # {} /\ ~Failed(issued)
            /\ Failed(issued) => reply'.kind = "Err"
            /\ (\E i \in 1..Len(issued) : ~issued[i].ok /\ issued[i].call # "commit")
                   => commits = {}]_vars

\* commit has returned Ok for a cache of a Clean, a Modified and a Removed object
C38_Witness ==
    /\ reply = [op |-> "commit", kind |-> "Ok"]
    /\ storage.ended = "Committed"
    /\ {cache[key].state : key \in DOMAIN cache} = {"Clean", "Modified", "Removed"}
    /\ Len(storage.issued) = 3

\* how often walk called a callback with a handle of the given kinds on an entry
Invocations(c, entry, handles) ==
    Cardinality({i \in 1..Len(walked.log) :
                     /\ walked.log[i].callback = c
                     /\ walked.log[i].entry = entry
                     /\ walked.log[i].handle \in handles})

\* the directories an entry lies in, below the root
RECURSIVE Ancestors(_)
Ancestors(entry) ==
    IF tree[entry].parent = 0 THEN {}
    ELSE {tree[entry].parent} \cup Ancestors(tree[entry].parent)

\* callback c called descend() on every directory the entry lies in
DescendedTo(c, entry) == \A a \in Ancestors(entry) : callbacks[c].wants[a]

WalkerOf(id) == CHOOSE c \in 1..Len(callbacks) : callbacks[c].id = id

RoundTrip ==
    \A s \in Held, value \in Values :
        LET p == push(nodes, stacks[s], value)
            q == pop(p.nodes, p.stack)
        IN /\ q.kind = "Some"
           /\ q.value = value
           /\ len(q.stack) = len(stacks[s])
           /\ iter(q.nodes, q.stack.head) = iter(nodes, stacks[s].head)

\* iter yields the values pushed and not popped, newest first, and len counts them
NewestFirst ==
    \A s \in Held :
        /\ iter(nodes, stacks[s].head) = stacks[s].pushed
        /\ len(stacks[s]) = Len(stacks[s].pushed)

\* C40: PStack is persistent: no operation changes the len or the iter
\* sequence of a stack that is still held, whatever is done to it or to the
\* stacks derived from it; s.push(v).pop() returns v and a stack with the len
\* and iter sequence of s; iter yields the elements from the most recently
\* pushed to the oldest
C40_Persistent ==
    /\ [](RoundTrip /\ NewestFirst)
    /\ [][\A s \in Held :
              stacks'[s].held =>
                  /\ len(stacks'[s]) = len(stacks[s])
                  /\ iter(nodes', stacks'[s].head) = iter(nodes, stacks[s].head)]_vars

\* two stacks were pushed onto the same stack: one is held, with the stack it
\* was pushed onto, and the other has been dropped
C40_Witness ==
    \E s \in Held, t \in Held :
        /\ stacks[s].pushed = <<1, 2>>
        /\ stacks[t].pushed = <<2>>
        /\ nodes[stacks[s].head].next = stacks[t].head
        /\ \E d \in 1..Len(stacks) : ~stacks[d].held /\ stacks[d].pushed = <<2, 2>>

====
